---- MODULE Spec2Model ----
(***************************************************************************)
(* Model of src/src/bindings/utils/testBindingBinary.ts: the supervisor    *)
(* (testBindingBinary) that forks a test process, the handshake            *)
(* ready/start, loaded/test, done/exit, the deadline timer raced against   *)
(* the completion path, and the worker block that runs in the child.       *)
(*                                                                         *)
(* One request is modelled.  The child is either the worker of this file   *)
(* (workerKind = "real") or an arbitrary process on the other end of the   *)
(* channel (workerKind = "fake") that may emit any message and exit with   *)
(* any code at any time.                                                   *)
(*                                                                         *)
(* An exit code is a sequence: <<>> is JavaScript null (death by signal),  *)
(* <<c>> is the numeric code c.                                            *)
(***************************************************************************)
EXTENDS Integers, Sequences, FiniteSets, TLC

\* ---- bounds -------------------------------------------------------------
\* number of messages an arbitrary (fake) child may emit
MaxFakeMsgs == 3
\* messages another sender may put on the worker's channel
MaxInjected == 3
\* chunks of output the child writes
MaxChunks == 2
\* messages the child of the second request sends
MaxOtherMsgs == 1
\* folder names in one directory listing
MaxFolders == 3
\* files of one library class on a machine
MaxPerClass == 1
\* chat command: response chunks of one iteration, characters of one chunk
MaxStreamed == 3
MaxChunkLen == 2

\* ---- value sets ---------------------------------------------------------
ChildToParentMessage == {"ready", "loaded", "done"}
ParentToChildMessage == {"start", "test", "exit"}
\* BuildGpu; "none" stands for the value false
BuildGpu == {"cuda", "vulkan", "none"}
\* what binding.getGpuType() may return; "null" stands for undefined/null
GpuTypeResult == BuildGpu \cup {"null"}
\* numeric exit codes a child may end with by itself
ExitCodes == {0, 1, 137}
\* exit codes as delivered to the 'exit' listener (<<>> = null)
ExitResults == {<<>>} \cup {<<c>> : c \in ExitCodes}

VARIABLES
    pc,                \* "call": before testBindingBinary; "raced": Promise.race set up; "skipped": early return true
    forkType,          \* forkFunction.type: "node" | "electron"
    pipeOutputOnNode,  \* parameter pipeOutputOnNode
    roleKnown,         \* file name starts with "testBindingBinary" and no SEA inside a snap
    gpu,               \* parameter gpu
    workerKind,        \* "real" | "fake"
    testPassed, forkSucceeded, testFinished,
    timeoutHandle,     \* "unset" | "armed" | "fired" | "cleared"
    subProcessSet,     \* the outer variable subProcess has been assigned
    pipeSet,           \* createTestProcess: pipeSet
    exitHook,          \* process.on("exit", cleanup...Fork) is registered
    exited,            \* createTestProcess (electron): exited
    exitCode,          \* subProcess.exitCode (<<>> = null)
    killed,            \* subProcess.killed
    timerPromise,      \* first promise of the race: "pending" | "timeout"
    mainPromise,       \* second promise of the race: "pending" | "true" | "false" | "norun"
    outcome,           \* settlements of the promise returned by testBindingBinary, in order
    proc,              \* the child process: "none" | "running" | "dead"
    procCode,          \* the exit result the dead child is reported with
    exitEvent,         \* 'exit' event of the child: "none" | "pending" | "delivered"
    toChild,           \* messages parent -> child in flight
    toParent,          \* messages child -> parent in flight
    binding,           \* worker: the binding module is loaded
    workerPc,          \* worker: "boot" | "listening" | "init" (awaiting binding.init())
    reprobed,          \* worker: loadBackends(dir) was called
    workerExit,        \* why the worker ended itself: "none" | "load" | "test" | "exit"
    fakeEmitted,       \* number of messages the fake child emitted
    trace,             \* events handled by the supervisor, in order
    handled,           \* worker: number of messages its onMessage was invoked for
    awaiting,          \* worker: the invocations suspended at await binding.init()
    wlog,              \* worker: the steps its invocations performed, in order
    hostAlive,         \* the host process has not emitted its 'exit' event
    injected,          \* messages put on the channel by another sender (WorkerSpec only)
    childEnvFlag,      \* process.env.TEST_BINDING_CP of the process running the worker file
    childChannel,      \* that process has process.parentPort or process.send
    guardIn,           \* what lines 24-58 read, while those lines' scope lasts
    warned,            \* console.warn of lines 25-33 / 43-51 was called
    outPipe,           \* chunks the child wrote to stdout/stderr, not yet read by the host
    written,           \* number of chunks the child wrote
    other,             \* a second, concurrent call of testBindingBinary: its locals and child
    otherMsgs,         \* number of messages the second call's child sent
    missing,           \* the capability functions the candidate binary does not export
    directOut,         \* what testSyclBinaryDirect returned, <<>> before it ran
    detIn,             \* the machine a detector function reads: folders, files, env
    detOut,            \* what the detector function returned, <<>> before it ran
    chat               \* the chat command: options, locals of one iteration, output

supVars == <<testPassed, forkSucceeded, testFinished, timeoutHandle, subProcessSet,
             pipeSet, exitHook, exited, exitCode, killed, timerPromise, mainPromise,
             outcome, proc, procCode, exitEvent, toChild, trace>>
\* the second call's state: no step of this call or of its child touches it
otherVars == <<other, otherMsgs>>
reqParams == <<forkType, pipeOutputOnNode, roleKnown, gpu, workerKind>>
\* the candidate binary, and the direct test script run on it
binaryVars == <<missing, directOut>>
\* the detector's machine and result
detVars == <<detIn, detOut>>
\* the chat command
chatVars == <<chat>>
reqVars == <<reqParams, otherVars, binaryVars, detVars, chatVars>>
workerVars == <<binding, workerPc, reprobed, workerExit, handled, awaiting, wlog>>
roleVars == <<childEnvFlag, childChannel>>
guardVars == <<guardIn, warned>>
pipeVars == <<outPipe, written>>
envVars == <<hostAlive, injected, roleVars, guardVars, pipeVars>>
vars == <<pc, reqVars, supVars, toParent, workerVars, fakeEmitted, envVars>>

\* ---- the supervisor's state as one value, so that nested calls compose ----
S == [testPassed |-> testPassed, forkSucceeded |-> forkSucceeded,
      testFinished |-> testFinished, timeoutHandle |-> timeoutHandle,
      subProcessSet |-> subProcessSet, pipeSet |-> pipeSet, exitHook |-> exitHook,
      exited |-> exited, exitCode |-> exitCode, killed |-> killed,
      timerPromise |-> timerPromise, mainPromise |-> mainPromise,
      outcome |-> outcome, proc |-> proc, procCode |-> procCode,
      exitEvent |-> exitEvent, toChild |-> toChild, trace |-> trace]

Apply(s) ==
    /\ testPassed' = s.testPassed
    /\ forkSucceeded' = s.forkSucceeded
    /\ testFinished' = s.testFinished
    /\ timeoutHandle' = s.timeoutHandle
    /\ subProcessSet' = s.subProcessSet
    /\ pipeSet' = s.pipeSet
    /\ exitHook' = s.exitHook
    /\ exited' = s.exited
    /\ exitCode' = s.exitCode
    /\ killed' = s.killed
    /\ timerPromise' = s.timerPromise
    /\ mainPromise' = s.mainPromise
    /\ outcome' = s.outcome
    /\ proc' = s.proc
    /\ procCode' = s.procCode
    /\ exitEvent' = s.exitEvent
    /\ toChild' = s.toChild
    /\ trace' = s.trace

Ev(k, m, c) == [k |-> k, m |-> m, c |-> c]

\* code ?? -1
OrMinusOne(code) == IF code = <<>> THEN -1 ELSE code[1]

\* ---- promises -----------------------------------------------------------
\* mutant: a later settlement replaces the earlier one
RaceSettleLast(o, v) == <<v>>

\* Promise.race: the returned promise takes the first settlement only
RaceSettle(o, v) == IF o = <<>> THEN <<v>> ELSE o

\* reject(new Error("Binding binary load test timed out")) of the first promise
rejectTimer(s) ==
    IF s.timerPromise = "pending"
    THEN [s EXCEPT !.timerPromise = "timeout", !.outcome = RaceSettle(@, "timeout")]
    ELSE s

\* resolve(v) / reject(...) of the second promise; a settled promise ignores it
settleMain(s, v) ==
    IF s.mainPromise = "pending"
    THEN [s EXCEPT !.mainPromise = v, !.outcome = RaceSettle(@, v)]
    ELSE s

\* ---- createTestProcess --------------------------------------------------
\* the exit result a killed child is reported with: code null, signal set
KilledResult == <<>>

\* subProcess.kill(...): only a live process can be signalled
kill(s) ==
    IF s.proc = "running"
    THEN [s EXCEPT !.proc = "dead", !.procCode = KilledResult,
                   !.exitEvent = "pending", !.killed = TRUE]
    ELSE s

\* mutant: the host 'exit' hook stays registered
cleanupNodeForkKeepsHook(s) ==
    IF s.exitCode = <<>> THEN kill(s) ELSE s

cleanupNodeFork(s) ==
    LET k == IF s.exitCode = <<>> THEN kill(s) ELSE s
    IN  [k EXCEPT !.exitHook = FALSE]

\* subProcess.pid is set exactly while the process lives
cleanupElectronFork(s) ==
    LET k == IF s.proc = "running" \/ ~s.exited
             THEN [kill(s) EXCEPT !.exited = TRUE]
             ELSE s
    IN  [k EXCEPT !.exitHook = FALSE]

killProcess(s) ==
    IF forkType = "electron" THEN cleanupElectronFork(s) ELSE cleanupNodeFork(s)

pipeMessages(s) ==
    IF forkType = "electron" THEN s
    ELSE IF ~pipeOutputOnNode \/ s.pipeSet THEN s
    ELSE [s EXCEPT !.pipeSet = TRUE]

\* mutant: the output is written whether or not piping was switched on
onStdoutAlways(s, chunk) ==
    [s EXCEPT !.trace = Append(@, Ev("data", chunk, 1))]

\* onStdout / onStderr (lines 165-177): c = 1 when the chunk is written to
\* the host's stream, 0 when it is dropped
onStdout(s, chunk) ==
    [s EXCEPT !.trace = Append(@, Ev("data", chunk, IF s.pipeSet THEN 1 ELSE 0))]

sendMessage(s, m) ==
    [s EXCEPT !.toChild = Append(@, m), !.trace = Append(@, Ev("send", m, 0))]

\* ---- testBindingBinary --------------------------------------------------
clearTimeout(h) == IF h = "armed" THEN "cleared" ELSE h

\* mutant: cleanup forgets to kill the child
cleanupNoKill(s) ==
    [s EXCEPT !.testFinished = TRUE, !.timeoutHandle = clearTimeout(@)]

\* mutant: cleanup forgets to clear the deadline timer
cleanupKeepsTimer(s) ==
    LET a == [s EXCEPT !.testFinished = TRUE]
    IN  IF a.subProcessSet THEN killProcess(a) ELSE a

cleanup(s) ==
    LET a == [s EXCEPT !.testFinished = TRUE, !.timeoutHandle = clearTimeout(@)]
    IN  IF a.subProcessSet THEN killProcess(a) ELSE a

\* mutant: done resolves testPassed without looking at forkSucceeded
doneAlwaysResolves(s) ==
    cleanup(settleMain(s, IF s.testPassed THEN "true" ELSE "false"))

\* mutant: done settles the promise and leaves the clean-up out
doneNoCleanup(s) ==
    IF ~s.forkSucceeded THEN settleMain(s, "norun")
    ELSE settleMain(s, IF s.testPassed THEN "true" ELSE "false")

done(s) ==
    cleanup(IF ~s.forkSucceeded THEN settleMain(s, "norun")
            ELSE settleMain(s, IF s.testPassed THEN "true" ELSE "false"))

\* mutant: ready triggers start and test at once
onMessageEager(s0, m) ==
    LET s == [s0 EXCEPT !.trace = Append(@, Ev("recv", m, 0))] IN
    IF m = "ready"
    THEN sendMessage(sendMessage([s EXCEPT !.forkSucceeded = TRUE], "start"), "test")
    ELSE IF m = "loaded" THEN sendMessage(pipeMessages(s), "test")
    ELSE IF m = "done" THEN sendMessage([s EXCEPT !.testPassed = TRUE], "exit")
    ELSE s

\* mutant: loaded already marks the test as passed
onMessageLoadedPasses(s0, m) ==
    LET s == [s0 EXCEPT !.trace = Append(@, Ev("recv", m, 0))] IN
    IF m = "ready" THEN sendMessage([s EXCEPT !.forkSucceeded = TRUE], "start")
    ELSE IF m = "loaded"
    THEN sendMessage(pipeMessages([s EXCEPT !.testPassed = TRUE]), "test")
    ELSE IF m = "done" THEN sendMessage([s EXCEPT !.testPassed = TRUE], "exit")
    ELSE s

\* mutant: done does not mark the test as passed
onMessageDoneIgnored(s0, m) ==
    LET s == [s0 EXCEPT !.trace = Append(@, Ev("recv", m, 0))] IN
    IF m = "ready" THEN sendMessage([s EXCEPT !.forkSucceeded = TRUE], "start")
    ELSE IF m = "loaded" THEN sendMessage(pipeMessages(s), "test")
    ELSE IF m = "done" THEN sendMessage(s, "exit")
    ELSE s

\* mutant: Ready is answered with Start but not remembered
onMessageReadyForgotten(s0, m) ==
    LET s == [s0 EXCEPT !.trace = Append(@, Ev("recv", m, 0))] IN
    IF m = "ready" THEN sendMessage(s, "start")
    ELSE IF m = "loaded" THEN sendMessage(pipeMessages(s), "test")
    ELSE IF m = "done" THEN sendMessage([s EXCEPT !.testPassed = TRUE], "exit")
    ELSE s

onMessage(s0, m) ==
    LET s == [s0 EXCEPT !.trace = Append(@, Ev("recv", m, 0))] IN
    IF m = "ready" THEN sendMessage([s EXCEPT !.forkSucceeded = TRUE], "start")
    ELSE IF m = "loaded" THEN sendMessage(pipeMessages(s), "test")
    ELSE IF m = "done" THEN sendMessage([s EXCEPT !.testPassed = TRUE], "exit")
    ELSE s

\* mutant: the exit code alone decides the result
onExitCodeOnly(s0, code) ==
    LET s == [s0 EXCEPT !.trace = Append(@, Ev("exit", "-", code))] IN
    done([s EXCEPT !.testPassed = (code = 0)])

\* mutant: a nonzero exit code does not reset testPassed
onExitKeepsPassed(s0, code) ==
    LET s == [s0 EXCEPT !.trace = Append(@, Ev("exit", "-", code))] IN
    done(s)

onExit(s0, code) ==
    LET s == [s0 EXCEPT !.trace = Append(@, Ev("exit", "-", code))] IN
    done(IF code # 0 THEN [s EXCEPT !.testPassed = FALSE] ELSE s)

\* the callback given to setTimeout
onTimeout(s) ==
    cleanup(rejectTimer([s EXCEPT !.timeoutHandle = "fired",
                                  !.trace = Append(@, Ev("timeout", "-", 0))]))

\* mutant: the deadline timer is never armed
armTimerNever(s) == s

\* timeoutHandle = setTimeout(..., testTimeout)
armTimer(s) == [s EXCEPT !.timeoutHandle = "armed"]


\* ---- initial state: a request about to be submitted ----------------------
\* what the guards of lines 24-58 read: whether the running file kept its
\* name, the platform and SNAP, the runtime, and what node:sea answers
\* ("throws": the import fails); only a Node executable can be a Node SEA
GuardInputs ==
    {in \in [fileNameOk : BOOLEAN, snapOnLinux : BOOLEAN, inBun : BOOLEAN,
             inElectron : BOOLEAN, sea : {"yes", "no", "throws"}] :
        in.sea = "yes" => (~in.inBun /\ ~in.inElectron)}

\* mutant: the SEA check is skipped
roleDeterminedByNameOnly(in) == in.fileNameOk

\* lines 24-58: neither guard returns true
roleDetermined(in) ==
    /\ in.fileNameOk
    /\ ~(in.snapOnLinux /\ ~in.inBun /\ ~in.inElectron /\ in.sea = "yes")

InitCall ==
    /\ pc = "call"
    /\ forkType \in {"node", "electron"}
    /\ pipeOutputOnNode \in BOOLEAN
    /\ \E in \in GuardInputs :
          /\ forkType = "electron" => in.inElectron
          /\ guardIn = <<in>>
          /\ roleKnown = roleDetermined(in)
    /\ warned = FALSE
    /\ outPipe = <<>> /\ written = 0
    /\ gpu \in BuildGpu
    /\ workerKind \in {"real", "fake"}
    /\ testPassed = FALSE /\ forkSucceeded = FALSE /\ testFinished = FALSE
    /\ timeoutHandle = "unset"
    /\ subProcessSet = FALSE
    /\ pipeSet = FALSE /\ exitHook = FALSE /\ exited = FALSE
    /\ exitCode = <<>> /\ killed = FALSE
    /\ timerPromise = "pending" /\ mainPromise = "pending" /\ outcome = <<>>
    /\ proc = "none" /\ procCode = <<>> /\ exitEvent = "none"
    /\ toChild = <<>> /\ toParent = <<>>
    /\ binding = FALSE /\ workerPc = "boot" /\ reprobed = FALSE /\ workerExit = "none"
    /\ fakeEmitted = 0
    /\ trace = <<>>
    /\ handled = 0 /\ awaiting = {} /\ wlog = <<>>
    /\ hostAlive = TRUE /\ injected = 0
    /\ childEnvFlag = "unset" /\ childChannel = FALSE
    /\ other = S /\ otherMsgs = 0

\* no detector function is called
NoMachine == [platform |-> "mac"]
\* the chat command is not running
NoChat == [phase |-> "idle", trimWhitespace |-> TRUE,
           hadTrimmedWhitespaceTextInThisIterationAndSegment |-> FALSE,
           nextPrintLeftovers |-> <<>>, currentSegmentType |-> "none",
           headers |-> <<>>, written |-> <<>>, received |-> <<>>, chunks |-> 0]

\* a call of testBindingBinary on a binary that exports every function
Init ==
    /\ InitCall
    /\ missing = {} /\ directOut = <<>>
    /\ detIn = NoMachine /\ detOut = <<>>
    /\ chat = NoChat

\* ---- supervisor actions --------------------------------------------------
\* testBindingBinary, lines 24-58: the process role cannot be determined
AssumePassed ==
    /\ hostAlive
    /\ pc = "call" /\ ~roleKnown
    /\ pc' = "skipped"
    /\ warned' = TRUE
    /\ outcome' = <<"true">>
    /\ UNCHANGED <<hostAlive, injected, roleVars, guardIn, pipeVars, reqVars, testPassed, forkSucceeded, testFinished, timeoutHandle,
                   subProcessSet, pipeSet, exitHook, exited, exitCode, killed,
                   timerPromise, mainPromise, proc, procCode, exitEvent, toChild,
                   trace, toParent, workerVars, fakeEmitted>>

\* what fork() may hand back: a live child, or a handle that already holds an
\* exit code / is already marked killed (the case lines 160-163 test for);
\* ev tells whether an 'exit' event is still to come for such a handle
SpawnResults ==
    {[alive |-> TRUE, exitCode |-> <<>>, killed |-> FALSE, ev |-> "none"]}
    \cup {[alive |-> FALSE, exitCode |-> <<c>>, killed |-> FALSE, ev |-> e] :
              c \in ExitCodes, e \in {"none", "pending"}}
    \cup {[alive |-> FALSE, exitCode |-> <<>>, killed |-> TRUE, ev |-> "pending"]}

\* mutant: the handle fork() returned is not inspected
createNodeProcessNoCheck(s, r) ==
    [s EXCEPT !.pipeSet = FALSE,
              !.proc = IF r.alive THEN "running" ELSE "dead",
              !.procCode = r.exitCode,
              !.exitEvent = r.ev,
              !.exitCode = r.exitCode,
              !.killed = r.killed,
              !.exitHook = TRUE]

\* createTestProcess, child_process.fork path (lines 129-195)
createNodeProcess(s, r) ==
    LET f == [s EXCEPT !.pipeSet = FALSE,
                       !.proc = IF r.alive THEN "running" ELSE "dead",
                       !.procCode = r.exitCode,
                       !.exitEvent = r.ev,
                       !.exitCode = r.exitCode,
                       !.killed = r.killed,
                       !.exitHook = TRUE]
    IN  IF f.killed \/ f.exitCode # <<>>
        THEN onExit(cleanupNodeFork(f), OrMinusOne(f.exitCode))
        ELSE f

\* mutant: the utilityProcess path registers no host 'exit' hook
createElectronProcessNoHook(s) ==
    [s EXCEPT !.exited = FALSE, !.proc = "running"]

\* createTestProcess, utilityProcess.fork path (lines 95-127)
createElectronProcess(s) ==
    [s EXCEPT !.exited = FALSE, !.proc = "running", !.exitHook = TRUE]

\* the second executor of the race, after createTestProcess returned (lines 235, 266-267)
assignSubProcess(s) ==
    LET a == [s EXCEPT !.subProcessSet = TRUE]
    IN  IF a.testFinished THEN killProcess(a) ELSE a

\* env: {...process.env, TEST_BINDING_CP: "true"} (lines 98-101, 136-139)
forkEnvFlag == "true"
\* stdio [..., "ipc"] of fork (lines 133-135); utilityProcess gives parentPort
forkChannel == TRUE

\* testBindingBinary from line 214 to the return of Promise.race
Spawn ==
    /\ hostAlive
    /\ pc = "call" /\ roleKnown
    /\ pc' = "raced"
    /\ \/ /\ forkType = "node"
          /\ \E r \in SpawnResults : Apply(assignSubProcess(createNodeProcess(armTimer(S), r)))
       \/ /\ forkType = "electron"
          /\ Apply(assignSubProcess(createElectronProcess(armTimer(S))))
    /\ childEnvFlag' = forkEnvFlag
    /\ childChannel' = forkChannel
    /\ guardIn' = <<>>
    /\ UNCHANGED <<reqVars, toParent, workerVars, fakeEmitted, hostAlive, injected, warned,
                   pipeVars>>

\* the deadline timer fires (lines 216-220)
TimerFires ==
    /\ hostAlive
    /\ timeoutHandle = "armed"
    /\ Apply(onTimeout(S))
    /\ UNCHANGED <<pc, reqVars, toParent, workerVars, fakeEmitted, envVars>>

\* subProcess.on("message", onMessage): the next message of the channel arrives
DeliverMessage ==
    /\ hostAlive
    /\ pc = "raced" /\ toParent # <<>>
    /\ Apply(onMessage(S, Head(toParent)))
    /\ toParent' = Tail(toParent)
    /\ UNCHANGED <<pc, reqVars, workerVars, fakeEmitted, envVars>>

\* subProcess.on("exit", ...) of the fork path taken (lines 116-120, 155-158)
exitListener(s) ==
    IF forkType = "electron"
    THEN onExit(cleanupElectronFork([s EXCEPT !.exited = TRUE, !.exitEvent = "delivered"]),
                OrMinusOne(s.procCode))
    ELSE onExit(cleanupNodeFork([s EXCEPT !.exitCode = s.procCode, !.exitEvent = "delivered"]),
                OrMinusOne(s.procCode))

ExitEvent ==
    /\ hostAlive
    /\ pc = "raced" /\ exitEvent = "pending"
    /\ Apply(exitListener(S))
    /\ UNCHANGED <<pc, reqVars, toParent, workerVars, fakeEmitted, envVars>>


\* ---- the worker block (lines 272-354), running in the child ---------------
supUnchangedByChild ==
    UNCHANGED <<pc, reqVars, testPassed, forkSucceeded, testFinished, timeoutHandle,
                subProcessSet, pipeSet, exitHook, exited, exitCode, killed,
                timerPromise, mainPromise, outcome, trace, envVars>>

\* mutant: the worker leaves with code 0 whatever the reason
processExitClean(code, why) ==
    /\ proc' = "dead"
    /\ procCode' = <<0>>
    /\ exitEvent' = "pending"
    /\ workerExit' = why

\* mutant: a failing test ends the worker with code 0
processExitZeroOnTest(code, why) ==
    /\ proc' = "dead"
    /\ procCode' = IF why = "test" THEN <<0>> ELSE <<code>>
    /\ exitEvent' = "pending"
    /\ workerExit' = why

\* process.exit(code) in the child, for the given reason
processExit(code, why) ==
    /\ proc' = "dead"
    /\ procCode' = <<code>>
    /\ exitEvent' = "pending"
    /\ workerExit' = why

childStays == UNCHANGED <<proc, procCode, exitEvent, workerExit>>

\* one step of invocation h of the worker's onMessage; ok = it did not throw,
\* v = the backend identifier a completed getGpuType() returned
Step(h, name, ok) == [h |-> h, step |-> name, ok |-> ok, v |-> "-"]
Returned(e, val) == IF e.step = "getGpuType" /\ e.ok THEN [e EXCEPT !.v = val] ELSE e

Range(seq) == {seq[i] : i \in DOMAIN seq}
IndexOf(seq, x) == CHOOSE i \in DOMAIN seq : seq[i] = x

\* a try block running the calls of plan in order; the call failAt throws
\* ("none": no call throws) and getGpuType() returns val; what is run: the
\* calls up to the throwing one
Run(h, plan, failAt, val) ==
    IF failAt \in Range(plan)
    THEN [i \in 1..IndexOf(plan, failAt) |->
              Returned(Step(h, plan[i], i < IndexOf(plan, failAt)), val)]
    ELSE [i \in 1..Len(plan) |-> Returned(Step(h, plan[i], TRUE), val)]

Threw(h, plan, failAt) == failAt \in Range(plan)

\* LlamaLogLevelToAddonLogLevel.get(LlamaLogLevel.error) != null (Llama.js)
errorLogLevelDefined == TRUE

\* mutant: loaded is announced before the binary is required
StartPlanLoadedFirst == <<"send:loaded", "require", "setLoggerLogLevel">>

\* lines 280-289: the calls of the "start" branch
StartPlan ==
    IF errorLogLevelDefined
    THEN <<"require", "setLoggerLogLevel", "send:loaded">>
    ELSE <<"require", "send:loaded">>

\* mutant: the reload is asked for only when a backend was expected
needsReprobeWhenExpected(loadedGpu, wanted) ==
    (loadedGpu = "null" \/ loadedGpu = "none") /\ wanted # "none"

\* lines 306-309: the condition of the second loadBackends call
needsReprobe(loadedGpu, wanted) ==
    loadedGpu = "null" \/ (loadedGpu = "none" /\ wanted # "none")

\* mutant: functional initialization comes before backend discovery
TestPlanBeforeAwaitInitFirst(loadedGpu, wanted) ==
    <<"bindingLoaded", "init:start", "loadBackends", "getGpuType">>

\* lines 296-312: the calls of the "test" branch up to the await
TestPlanBeforeAwait(loadedGpu, wanted) ==
    <<"bindingLoaded", "loadBackends", "getGpuType">>
    \o (IF needsReprobe(loadedGpu, wanted) THEN <<"loadBackends(dir)">> ELSE <<>>)
    \o <<"init:start">>

\* mutant: done is announced before the support assertion
TestPlanAfterAwaitDoneEarly ==
    <<"init:end", "getGpuVramInfo", "getGpuDeviceInfo", "getGpuType", "identity",
      "send:done", "ensureGpuDeviceIsSupported">>

\* lines 312-338: the calls of the "test" branch after the await
TestPlanAfterAwait ==
    <<"init:end", "getGpuVramInfo", "getGpuDeviceInfo", "getGpuType", "identity",
      "ensureGpuDeviceIsSupported", "send:done">>

\* lines 323-332: the first call that throws after the await, given the call
\* that throws by itself and the gpu type reported: the identity check throws
\* when it is reached with gpuType !== message.gpu
FirstThrowAfterAwait(failAt, gpuType, wanted) ==
    IF failAt \in {"init:end", "getGpuVramInfo", "getGpuDeviceInfo", "getGpuType"}
    THEN failAt
    ELSE IF gpuType # wanted THEN "identity"
    ELSE failAt

\* the functions the harness calls on the binary
CapabilityFunctions ==
    {"setLoggerLogLevel", "loadBackends", "getGpuType", "init", "getGpuVramInfo",
     "getGpuDeviceInfo", "ensureGpuDeviceIsSupported"}

\* the function of the binary a step calls ("-": none)
CalledFunction(step) ==
    IF step = "loadBackends(dir)" THEN "loadBackends"
    ELSE IF step = "init:start" THEN "init"
    ELSE IF step \in CapabilityFunctions THEN step
    ELSE "-"

\* calling a function the binary does not export throws a TypeError: failAt
\* is a possible course of plan on a binary lacking the functions of lacks
CanFailAt(plan, failAt, lacks) ==
    \A i \in DOMAIN plan :
        CalledFunction(plan[i]) \in lacks =>
            (failAt \in Range(plan) /\ IndexOf(plan, failAt) <= i)

\* mutant: every message of a handler is posted twice
EmittedTwice(run) ==
    LET sends == SelectSeq(run, LAMBDA e : e.step \in {"send:loaded", "send:done"} /\ e.ok)
        once == [i \in 1..Len(sends) |-> IF sends[i].step = "send:loaded" THEN "loaded" ELSE "done"]
    IN  once \o once

\* emissions of a run: the messages its send steps put on the channel
Emitted(run) ==
    LET sends == SelectSeq(run, LAMBDA e : e.step \in {"send:loaded", "send:done"} /\ e.ok)
    IN  [i \in 1..Len(sends) |-> IF sends[i].step = "send:loaded" THEN "loaded" ELSE "done"]

workerListens == workerKind = "real" /\ proc = "running" /\ workerPc # "boot"

\* mutant: the worker block is entered whenever a parent channel exists
isWorkerRoleChannelOnly(flag, channel) == channel

\* line 272: the condition of the worker block
isWorkerRole(flag, channel) == flag = "true" /\ channel

\* line 353: the worker announces itself
WorkerBoot ==
    /\ workerKind = "real" /\ proc = "running" /\ workerPc = "boot"
    /\ isWorkerRole(childEnvFlag, childChannel)
    /\ workerPc' = "listening"
    /\ toParent' = Append(toParent, "ready")
    /\ wlog' = Append(wlog, Step(0, "send:ready", TRUE))
    /\ childStays
    /\ UNCHANGED <<toChild, binding, reprobed, fakeEmitted, handled, awaiting>>
    /\ supUnchangedByChild

\* lines 279-293: "start"
WorkerStart ==
    /\ workerListens
    /\ toChild # <<>> /\ Head(toChild) = "start"
    /\ toChild' = Tail(toChild)
    /\ handled' = handled + 1
    /\ \E failAt \in {"none", "require", "setLoggerLogLevel"} :
          LET h == handled + 1
              run == Run(h, StartPlan, failAt, "-")
          IN  /\ CanFailAt(StartPlan, failAt, missing)
              /\ binding' = (binding \/ failAt # "require")
              /\ toParent' = toParent \o Emitted(run)
              /\ IF Threw(h, StartPlan, failAt)
                 THEN /\ processExit(1, "load")
                      /\ wlog' = wlog \o run \o <<Step(h, "exit:1", TRUE)>>
                 ELSE /\ childStays
                      /\ wlog' = wlog \o run
    /\ UNCHANGED <<workerPc, reprobed, fakeEmitted, awaiting>>
    /\ supUnchangedByChild

\* lines 294-312: "test" up to the await of binding.init()
WorkerTest ==
    /\ workerListens
    /\ toChild # <<>> /\ Head(toChild) = "test"
    /\ toChild' = Tail(toChild)
    /\ handled' = handled + 1
    /\ \E loadedGpu \in GpuTypeResult,
          throwAt \in {"none", "loadBackends", "getGpuType", "loadBackends(dir)", "init:start"} :
          LET h == handled + 1
              plan == TestPlanBeforeAwait(loadedGpu, gpu)
              failAt == IF ~binding THEN "bindingLoaded" ELSE throwAt
              run == Run(h, plan, failAt, loadedGpu)
          IN  /\ CanFailAt(plan, failAt, missing)
              /\ reprobed' = (reprobed \/ \E i \in DOMAIN run :
                                               run[i].step = "loadBackends(dir)")
              /\ IF Threw(h, plan, failAt)
                 THEN /\ processExit(1, "test")
                      /\ wlog' = wlog \o run \o <<Step(h, "exit:1", TRUE)>>
                      /\ UNCHANGED <<workerPc, awaiting>>
                 ELSE /\ childStays
                      /\ wlog' = wlog \o run
                      /\ awaiting' = awaiting \cup {h}
                      /\ workerPc' = "init"
    /\ UNCHANGED <<binding, toParent, fakeEmitted>>
    /\ supUnchangedByChild

\* lines 312-342: binding.init() settles and the rest of "test" runs
WorkerInitSettles ==
    /\ workerKind = "real" /\ proc = "running" /\ awaiting # {}
    /\ \E h \in awaiting, gpuType \in GpuTypeResult,
          throwAt \in {"none", "init:end", "getGpuVramInfo", "getGpuDeviceInfo",
                       "getGpuType", "ensureGpuDeviceIsSupported"} :
          LET failAt == FirstThrowAfterAwait(throwAt, gpuType, gpu)
              run == Run(h, TestPlanAfterAwait, failAt, gpuType)
          IN  /\ CanFailAt(TestPlanAfterAwait, failAt, missing)
              /\ awaiting' = awaiting \ {h}
              /\ toParent' = toParent \o Emitted(run)
              /\ IF Threw(h, TestPlanAfterAwait, failAt)
                 THEN /\ processExit(1, "test")
                      /\ wlog' = wlog \o run \o <<Step(h, "exit:1", TRUE)>>
                      /\ UNCHANGED workerPc
                 ELSE /\ childStays
                      /\ wlog' = wlog \o run
                      /\ workerPc' = IF awaiting \ {h} = {} THEN "listening" ELSE "init"
    /\ UNCHANGED <<toChild, binding, reprobed, fakeEmitted, handled>>
    /\ supUnchangedByChild

\* lines 343-345: "exit"
WorkerExit ==
    /\ workerListens
    /\ toChild # <<>> /\ Head(toChild) = "exit"
    /\ toChild' = Tail(toChild)
    /\ handled' = handled + 1
    /\ processExit(0, "exit")
    /\ wlog' = Append(wlog, Step(handled + 1, "exit:0", TRUE))
    /\ UNCHANGED <<toParent, binding, workerPc, reprobed, fakeEmitted, awaiting>>
    /\ supUnchangedByChild

\* the native code of the binary takes the child down (abort, fault, OOM kill)
WorkerCrash ==
    /\ workerKind = "real" /\ proc = "running"
    /\ \E r \in ExitResults \ {<<0>>} :
          /\ proc' = "dead" /\ procCode' = r /\ exitEvent' = "pending"
    /\ UNCHANGED <<workerExit, toChild, toParent, binding, workerPc, reprobed,
                   fakeEmitted, handled, awaiting, wlog>>
    /\ supUnchangedByChild

\* ---- an arbitrary child on the other end of the channel -------------------
FakeEmit ==
    /\ workerKind = "fake" /\ proc = "running" /\ fakeEmitted < MaxFakeMsgs
    /\ \E m \in ChildToParentMessage : toParent' = Append(toParent, m)
    /\ fakeEmitted' = fakeEmitted + 1
    /\ childStays
    /\ UNCHANGED <<toChild, binding, workerPc, reprobed, handled, awaiting, wlog>>
    /\ supUnchangedByChild

FakeExit ==
    /\ workerKind = "fake" /\ proc = "running"
    /\ \E r \in ExitResults :
          /\ proc' = "dead" /\ procCode' = r /\ exitEvent' = "pending"
    /\ UNCHANGED <<workerExit, toChild, toParent, binding, workerPc, reprobed,
                   fakeEmitted, handled, awaiting, wlog>>
    /\ supUnchangedByChild

\* ---- specification -------------------------------------------------------
Next ==
    \/ AssumePassed
    \/ Spawn
    \/ TimerFires
    \/ DeliverMessage
    \/ ExitEvent
    \/ WorkerBoot
    \/ WorkerStart
    \/ WorkerTest
    \/ WorkerInitSettles
    \/ WorkerExit
    \/ WorkerCrash
    \/ FakeEmit
    \/ FakeExit

Spec == Init /\ [][Next]_vars

\* the host process shuts down: its 'exit' listeners run (lines 113, 152), and
\* nothing of the supervisor runs afterwards
HostExit ==
    /\ hostAlive
    /\ hostAlive' = FALSE
    /\ Apply(IF exitHook THEN killProcess(S) ELSE S)
    /\ UNCHANGED <<pc, reqVars, toParent, workerVars, fakeEmitted, injected, roleVars, guardVars,
                   pipeVars>>

HostNext == Next \/ HostExit

\* the worker block serves whatever parent forked it with TEST_BINDING_CP set
\* (line 272): any message of the protocol reaches process.on("message")
\* (lines 348-351), in any order
InjectMessage ==
    /\ workerKind = "real" /\ proc = "running"
    /\ injected < MaxInjected
    /\ injected' = injected + 1
    /\ \E m \in ParentToChildMessage : toChild' = Append(toChild, m)
    /\ UNCHANGED <<pc, reqVars, testPassed, forkSucceeded, testFinished, timeoutHandle,
                   subProcessSet, pipeSet, exitHook, exited, exitCode, killed,
                   timerPromise, mainPromise, outcome, trace, hostAlive, roleVars,
                   guardVars, pipeVars, proc, procCode, exitEvent, toParent, workerVars,
                   fakeEmitted>>

WorkerNext ==
    \/ Spawn
    \/ InjectMessage
    \/ WorkerBoot
    \/ WorkerStart
    \/ WorkerTest
    \/ WorkerInitSettles
    \/ WorkerExit
    \/ WorkerCrash

\* the worker alone, under any sequence of messages from its parent
WorkerSpec == Init /\ [][WorkerNext]_vars

\* what TEST_BINDING_CP may hold in a process: absent, "true", anything else
EnvFlags == {"unset", "true", "1"}

\* the file is run by a process that testBindingBinary did not fork (imported
\* by an application, run directly, forked by another parent)
StartOtherwise ==
    /\ workerKind = "real" /\ pc = "call" /\ proc = "none"
    /\ pc' = "foreign"
    /\ proc' = "running"
    /\ \E flag \in EnvFlags, channel \in BOOLEAN :
          /\ childEnvFlag' = flag
          /\ childChannel' = channel
    /\ guardIn' = <<>>
    /\ UNCHANGED <<warned, pipeVars, reqVars, testPassed, forkSucceeded, testFinished, timeoutHandle,
                   subProcessSet, pipeSet, exitHook, exited, exitCode, killed,
                   timerPromise, mainPromise, outcome, trace, hostAlive, injected,
                   procCode, exitEvent, toChild, toParent, workerVars, fakeEmitted>>

RoleNext == WorkerNext \/ StartOtherwise

\* the worker file in a process started in any way
RoleSpec == Init /\ [][RoleNext]_vars

\* ---- a second call of testBindingBinary running concurrently ---------------
\* mutant: testFinished is one flag for all calls
StepOtherSharedFlag(next) ==
    /\ other' = next
    /\ testFinished' = next.testFinished
    /\ UNCHANGED <<pc, reqParams, binaryVars, detVars, chatVars, testPassed, forkSucceeded, timeoutHandle,
                   subProcessSet, pipeSet, exitHook, exited, exitCode, killed,
                   timerPromise, mainPromise, outcome, trace, proc, procCode, exitEvent,
                   toChild, toParent, workerVars, fakeEmitted, envVars>>

\* a step of the second call: its locals (lines 198-203) and the locals of
\* its createTestProcess call (lines 96, 129) are its own closures' variables
StepOther(next) ==
    /\ other' = next
    /\ UNCHANGED <<pc, reqParams, binaryVars, detVars, chatVars, supVars, toParent, workerVars, fakeEmitted,
                   envVars>>

\* the second call is made while this one is under way
OtherSpawn ==
    /\ hostAlive /\ roleKnown /\ pc = "raced"
    /\ other.timeoutHandle = "unset"
    /\ \/ /\ forkType = "node"
          /\ \E r \in SpawnResults : StepOther(assignSubProcess(createNodeProcess(armTimer(other), r)))
       \/ /\ forkType = "electron"
          /\ StepOther(assignSubProcess(createElectronProcess(armTimer(other))))
    /\ UNCHANGED otherMsgs

OtherTimerFires ==
    /\ hostAlive
    /\ other.timeoutHandle = "armed"
    /\ StepOther(onTimeout(other))
    /\ UNCHANGED otherMsgs

\* the second call's child sends a message and its 'message' listener runs
OtherMessage ==
    /\ hostAlive
    /\ other.subProcessSet /\ otherMsgs < MaxOtherMsgs
    /\ otherMsgs' = otherMsgs + 1
    /\ \E m \in ChildToParentMessage : StepOther(onMessage(other, m))

\* the second call's child ends, or its pending 'exit' event is delivered
OtherExit ==
    /\ hostAlive
    /\ \/ /\ other.proc = "running"
          /\ \E c \in ExitResults :
                StepOther(exitListener([other EXCEPT !.proc = "dead", !.procCode = c,
                                                     !.exitEvent = "pending"]))
       \/ /\ other.exitEvent = "pending"
          /\ StepOther(exitListener(other))
    /\ UNCHANGED otherMsgs

MultiNext ==
    \/ AssumePassed
    \/ Spawn
    \/ TimerFires
    \/ DeliverMessage
    \/ ExitEvent
    \/ WorkerBoot
    \/ WorkerStart
    \/ WorkerTest
    \/ WorkerInitSettles
    \/ WorkerExit
    \/ OtherSpawn
    \/ OtherTimerFires
    \/ OtherMessage
    \/ OtherExit

\* two calls of testBindingBinary running concurrently in one host
MultiSpec == Init /\ [][MultiNext]_vars

\* ---- the direct test script and binaries lacking functions ----------------
\* the backend the direct script expects; it is not a BuildGpu of the harness
GPU_TYPE == "sycl"
\* what binding.getGpuType() may return to the direct script
DirectGpuResult == {GPU_TYPE, "none", "null"}
\* the functions the direct script insists on
requiredFunctions ==
    {"loadBackends", "getGpuType", "init", "getGpuVramInfo", "getGpuDeviceInfo",
     "ensureGpuDeviceIsSupported"}

\* the steps of the direct script on a binary lacking the functions of lacks
\* whose first getGpuType() returns loadedGpu
DirectPlan(lacks, loadedGpu) ==
    <<"existsSync", "require", "requiredFunctions">>
    \o (IF "setLoggerLogLevel" \in lacks THEN <<>> ELSE <<"setLoggerLogLevel">>)
    \o <<"loadBackends", "getGpuType">>
    \o (IF needsReprobe(loadedGpu, GPU_TYPE) THEN <<"loadBackends(dir)", "getGpuType(dir)">>
        ELSE <<>>)
    \o <<"init", "getGpuVramInfo", "getGpuDeviceInfo", "getGpuType(final)", "identity",
         "ensureGpuDeviceIsSupported">>

\* the first step of the direct script that throws ("none": it runs through)
DirectFirstThrow(exists, lacks, loadedGpu, finalGpu, throwAt) ==
    LET plan == DirectPlan(lacks, loadedGpu)
        throws(step) ==
            \/ step = "existsSync" /\ ~exists
            \/ step = "requiredFunctions" /\ requiredFunctions \cap lacks # {}
            \/ step = "identity" /\ finalGpu # GPU_TYPE
            \/ step = throwAt
        thrown == {i \in DOMAIN plan : throws(plan[i])}
    IN  IF thrown = {} THEN "none"
        ELSE plan[CHOOSE i \in thrown : \A j \in thrown : i <= j]

\* testSyclBinaryDirect: true when no step threw, false from the catch
testSyclBinaryDirect(exists, lacks, loadedGpu, finalGpu, throwAt) ==
    DirectFirstThrow(exists, lacks, loadedGpu, finalGpu, throwAt) = "none"

\* the direct script runs on the binary
DirectRun ==
    /\ directOut = <<>>
    /\ \E exists \in BOOLEAN, loadedGpu \in DirectGpuResult, finalGpu \in DirectGpuResult,
          throwAt \in {"none", "require", "loadBackends", "init", "ensureGpuDeviceIsSupported"} :
          directOut' = <<testSyclBinaryDirect(exists, missing, loadedGpu, finalGpu, throwAt)>>
    /\ UNCHANGED <<pc, reqParams, otherVars, missing, detVars, chatVars, supVars, toParent,
                   workerVars, fakeEmitted, envVars>>

\* the candidate binaries: complete, or lacking one capability function
Binaries == {{}} \cup {{f} : f \in CapabilityFunctions}

\* a call on the repository's worker with the role known, on any candidate
LackInit ==
    /\ InitCall
    /\ workerKind = "real" /\ roleKnown
    /\ guardIn[1].sea = "no" /\ ~guardIn[1].snapOnLinux /\ ~guardIn[1].inBun
    /\ guardIn[1].inElectron = (forkType = "electron")
    /\ missing \in Binaries /\ directOut = <<>>
    /\ detIn = NoMachine /\ detOut = <<>>
    /\ chat = NoChat

LackNext ==
    \/ Spawn
    \/ TimerFires
    \/ DeliverMessage
    \/ ExitEvent
    \/ WorkerBoot
    \/ WorkerStart
    \/ WorkerTest
    \/ WorkerInitSettles
    \/ WorkerExit
    \/ WorkerCrash
    \/ DirectRun

\* the harness and the direct script on binaries that may lack a function
LackSpec == LackInit /\ [][LackNext]_vars

\* ---- detector: CUDA installation folders ---------------------------------
\* a folder name is <<prefix, rest>>: "cuda-10" is <<"cuda-", "10">>
Prefixes == {"cuda-", "v", "V"}
Suffixes == {"9", "10", "10.0", "bogus", "junk"}
FolderNames == (Prefixes \X Suffixes) \cup {<<"lib", "">>}

\* String.prototype.toLowerCase on a prefix
toLowerCase(prefix) == IF prefix = "V" THEN "v" ELSE prefix

\* semver.valid(semver.coerce(version)): <<major, minor, patch>>, or <<>> for null
coerce(version) ==
    CASE version = "9" -> <<9, 0, 0>>
      [] version = "10" -> <<10, 0, 0>>
      [] version = "10.0" -> <<10, 0, 0>>
      [] OTHER -> <<>>

\* semver.compare on two valid versions
semverCompare(v, w) ==
    IF v[1] # w[1] THEN (IF v[1] < w[1] THEN -1 ELSE 1)
    ELSE IF v[2] # w[2] THEN (IF v[2] < w[2] THEN -1 ELSE 1)
    ELSE IF v[3] # w[3] THEN (IF v[3] < w[3] THEN -1 ELSE 1)
    ELSE 0

\* the comparator given to sort: a.slice(prefix.length) is a[2]
sortCompare(a, b) ==
    LET aVersionValid == coerce(a[2])
        bVersionValid == coerce(b[2])
    IN  IF aVersionValid # <<>> /\ bVersionValid # <<>>
        THEN semverCompare(aVersionValid, bVersionValid)
        ELSE IF aVersionValid # <<>> THEN -1
        ELSE IF bVersionValid # <<>> THEN 1
        ELSE 0

\* Array.prototype.sort is stable: an element goes after those it does not precede
RECURSIVE insert(_, _)
insert(sorted, x) ==
    IF sorted = <<>> THEN <<x>>
    ELSE IF sortCompare(Head(sorted), x) <= 0 THEN <<Head(sorted)>> \o insert(Tail(sorted), x)
    ELSE <<x>> \o sorted

RECURSIVE sort(_)
sort(names) ==
    IF names = <<>> THEN <<>>
    ELSE insert(sort(SubSeq(names, 1, Len(names) - 1)), names[Len(names)])

\* Array.prototype.reverse
reverse(names) == [i \in 1..Len(names) |-> names[Len(names) + 1 - i]]

\* the folder prefix of a platform
cudaFolderPrefix(platform) == IF platform = "win" THEN "v" ELSE "cuda-"

\* .filter(startsWith prefix).sort(comparator).reverse() on one folder listing
potentialCudaFolders(platform, listing) ==
    LET keep(name) == toLowerCase(name[1]) = cudaFolderPrefix(platform)
    IN  reverse(sort(SelectSeq(listing, keep)))

\* the listings fs.readdir may return: distinct names, at most MaxFolders
Listings ==
    {l \in UNION {[1..n -> FolderNames] : n \in 0..MaxFolders} :
        \A i, j \in DOMAIN l : i # j => l[i] # l[j]}

\* one fixed call of testBindingBinary, not started
QuietCall ==
    /\ InitCall
    /\ forkType = "node" /\ ~pipeOutputOnNode /\ gpu = "cuda" /\ workerKind = "real"
    /\ roleKnown /\ guardIn[1].sea = "no" /\ ~guardIn[1].snapOnLinux
    /\ ~guardIn[1].inBun /\ ~guardIn[1].inElectron
    /\ missing = {} /\ directOut = <<>>
    /\ chat = NoChat

\* a folder listing on a platform that has CUDA folders
RankInit ==
    /\ QuietCall
    /\ detIn \in [platform : {"win", "linux"}, listing : Listings]
    /\ detOut = <<>>

\* the listing is filtered, sorted and reversed
RankFolders ==
    /\ detOut = <<>>
    /\ detOut' = <<potentialCudaFolders(detIn.platform, detIn.listing)>>
    /\ UNCHANGED <<pc, reqParams, otherVars, binaryVars, chatVars, detIn, supVars, toParent,
                   workerVars, fakeEmitted, envVars>>

RankNext == RankFolders

\* the ranking stage of getCudaInstallationPaths on any listing
RankSpec == RankInit /\ [][RankNext]_vars

\* the ranked names, once ranked
Ranked == detOut[1]
\* the name has a version semver can parse
Parsed(name) == coerce(name[2]) # <<>>
\* position of a name in a sequence of distinct names
PositionIn(names, name) == CHOOSE i \in DOMAIN names : names[i] = name

\* ---- detector: getCudaInstallationPaths ----------------------------------
\* a path is a folder name in a directory; the override has no folder name
FolderIn(dir, name) == [dir |-> dir, name |-> name]
\* the directory holding the versioned folders
cudaContainer(platform) ==
    IF platform = "win" THEN "Program Files/NVIDIA GPU Computing Toolkit/CUDA"
    ELSE "/usr/local"
\* the unversioned `${usrLocal}/cuda`
usrLocalCuda == FolderIn("/usr/local", <<"cuda", "">>)
\* process.env.CUDA_PATH: <<>> unset, <<"">> empty, else a folder
CudaPathValues == {<<>>, <<"">>, <<"/opt/cuda">>}
OverridePath(value) == FolderIn(value, <<"", "">>)

\* what the existence filter looks a path up by
pathKey(path) == IF path.name = <<"", "">> THEN path.dir ELSE path.name[2]
\* the folders that may be absent (linux: lack a targets folder)
AbsentKeys == {"/opt/cuda", "", "9", "bogus"}
\* fs.pathExists(cudaFolder) on win, fs.pathExists(`${cudaFolder}/targets`) on linux
passesFilter(m, path) == pathKey(path) \notin m.absent

\* CUDA_PATH is set and not empty
overrideGiven(m) == m.cudaPath # <<>> /\ m.cudaPath[1] # ""

\* mutant: the override goes to the end of the candidates
withOverrideLast(m, folders) ==
    IF overrideGiven(m) THEN folders \o <<OverridePath(m.cudaPath[1])>> ELSE folders

\* if (CUDA_PATH != null && CUDA_PATH !== "") candidates.unshift(CUDA_PATH)
withOverride(m, folders) ==
    IF overrideGiven(m) THEN <<OverridePath(m.cudaPath[1])>> \o folders ELSE folders

\* getCudaInstallationPaths on machine m; a throw inside the try ends in the
\* catch, which logs and returns nothing
getCudaInstallationPaths(m) ==
    LET dir == cudaContainer(m.platform)
        listed == IF m.scan = "ok" THEN m.listing ELSE <<>>
        ranked == potentialCudaFolders(m.platform, listed)
        folders == [i \in DOMAIN ranked |-> FolderIn(dir, ranked[i])]
        keep(path) == passesFilter(m, path)
    IN  IF m.platform \notin {"win", "linux"} THEN <<>>
        ELSE IF m.scan = "throws" THEN <<>>
        ELSE IF m.platform = "win" THEN SelectSeq(withOverride(m, folders), keep)
        ELSE SelectSeq(withOverride(m, <<usrLocalCuda>> \o folders), keep)

\* the listings of the installation-path runs: three suffixes, two prefixes
PathListings ==
    {l \in Listings : \A i \in DOMAIN l : l[i] \in {"cuda-", "v"} \X {"9", "10", "bogus"}}

\* the machines getCudaInstallationPaths may run on; scan: the parent folder
\* is listed ("ok"), does not exist ("absent"), or listing it throws
PathMachines ==
    [platform : {"win", "linux", "mac"}, listing : PathListings,
     scan : {"ok", "absent", "throws"}, cudaPath : CudaPathValues,
     absent : SUBSET AbsentKeys]

PathsInit ==
    /\ QuietCall
    /\ detIn \in PathMachines
    /\ detOut = <<>>

GetCudaInstallationPaths ==
    /\ detOut = <<>>
    /\ detOut' = <<getCudaInstallationPaths(detIn)>>
    /\ UNCHANGED <<pc, reqParams, otherVars, binaryVars, chatVars, detIn, supVars, toParent,
                   workerVars, fakeEmitted, envVars>>

PathsNext == GetCudaInstallationPaths

\* getCudaInstallationPaths on any machine
PathsSpec == PathsInit /\ [][PathsNext]_vars

\* the returned installation paths
Installations == detOut[1]
\* the override of this machine
Override == OverridePath(detIn.cudaPath[1])

\* ---- detector: detectCudaSupport -----------------------------------------
\* the library classes a platform looks for, "driver" apart
RuntimeClasses(platform) ==
    IF platform = "win" THEN {"cudart", "cublas", "cublasLt"}
    ELSE IF platform = "linux" THEN {"cuda", "cudart", "cublas", "cublasLt"}
    ELSE {}

\* the file names accepted for a class
AcceptedNames(platform, class) ==
    IF class = "vulkan"
    THEN CASE platform = "win" -> <<"vulkan-1.dll">>
           [] platform = "linux" -> <<"libvulkan.so", "libvulkan.so.1">>
           [] platform = "mac" -> <<"libvulkan.dylib", "libvulkan.dylib.1">>
    ELSE IF platform = "win"
    THEN CASE class = "cudart" ->
                <<"cudart64_110.dll", "cudart64_11.dll", "cudart64_12.dll", "cudart64_13.dll">>
           [] class = "cublas" -> <<"cublas64_11.dll", "cublas64_12.dll", "cublas64_13.dll">>
           [] class = "cublasLt" ->
                <<"cublasLt64_11.dll", "cublasLt64_12.dll", "cublasLt64_13.dll">>
           [] class = "driver" -> <<"nvml.dll">>
    ELSE CASE class = "cuda" -> <<"libcuda.so", "libcuda.so.1">>
           [] class = "cudart" ->
                <<"libcudart.so", "libcudart.so.11", "libcudart.so.12", "libcudart.so.13">>
           [] class = "cublas" ->
                <<"libcublas.so", "libcublas.so.11", "libcublas.so.12", "libcublas.so.13">>
           [] class = "cublasLt" ->
                <<"libcublasLt.so", "libcublasLt.so.11", "libcublasLt.so.12",
                  "libcublasLt.so.13">>
           [] class = "driver" -> <<"libnvidia-ml.so", "libnvidia-ml.so.1">>

\* where a file may lie: in a directory searched whatever is installed (the
\* default search of hasFileInPath, System32, /usr/lib), in the library folder
\* of a CUDA installation (win: bin, linux: targets/<target>/lib), or elsewhere
Locations == {"fixed", "install", "elsewhere"}

\* the library search paths: the installation's folder is searched only when
\* getCudaInstallationPaths returned the installation
librarySearchPaths(m) ==
    {"fixed"} \cup (IF getCudaInstallationPaths(m) # <<>> THEN {"install"} ELSE {})

\* mutant: the file is found wherever it lies
hasFileAnywhere(m, name, paths) ==
    \E f \in UNION {m.files[c] : c \in DOMAIN m.files} : f[1] = name

\* hasFileInPath: the file exists in one of the paths
hasFileInPath(m, name, paths) ==
    \E f \in UNION {m.files[c] : c \in DOMAIN m.files} : f[1] = name /\ f[2] \in paths

\* asyncSome: some promise resolved to true
asyncSome(results) == \E i \in DOMAIN results : results[i]

\* mutant: one found class is enough
asyncEveryAsSome(results) == \E i \in DOMAIN results : results[i]

\* asyncEvery: every promise resolved to true
asyncEvery(results) == \A i \in DOMAIN results : results[i]

\* asyncSome over the accepted names of one class
classFound(m, class) ==
    LET names == AcceptedNames(m.platform, class)
    IN  asyncSome([i \in DOMAIN names |-> hasFileInPath(m, names[i], librarySearchPaths(m))])

\* mutant: the same three classes on every platform
ClassOrderThreeEverywhere(platform) == <<"cudart", "cublas", "cublasLt">>

\* the classes in the order of the asyncEvery argument
ClassOrder(platform) ==
    IF platform = "win" THEN <<"cudart", "cublas", "cublasLt">>
    ELSE <<"cuda", "cudart", "cublas", "cublasLt">>

detectCudaSupport(m) ==
    IF m.platform \in {"win", "linux"}
    THEN [hasNvidiaDriver |-> classFound(m, "driver"),
          hasCudaRuntime |->
              asyncEvery([i \in DOMAIN ClassOrder(m.platform) |->
                             classFound(m, ClassOrder(m.platform)[i])])]
    ELSE [hasNvidiaDriver |-> FALSE, hasCudaRuntime |-> FALSE]

\* the files of one class a machine may hold: at most MaxPerClass, each one
\* of the first and the last accepted name at one location
ClassFiles(platform, class) ==
    LET names == AcceptedNames(platform, class)
    IN  {names[1], names[Len(names)]} \X Locations
FilePicks(platform, class) ==
    {fs \in SUBSET ClassFiles(platform, class) : Cardinality(fs) <= MaxPerClass}

\* libcuda, which is not one of the three runtime classes: one file or none
LibcudaPicks == {{}} \cup {{f} : f \in ClassFiles("linux", "cuda")}

\* the driver library is in the fixed directories or nowhere
DriverPicks(platform) == {{}, {<<AcceptedNames(platform, "driver")[1], "fixed">>}}

\* a machine with one CUDA installation, which passes the existence filter
\* unless gone, and the given files
CudaMachine(platform, gone, files) ==
    [platform |-> platform, listing |-> << <<cudaFolderPrefix(platform), "10">> >>,
     scan |-> "ok", cudaPath |-> <<>>, absent |-> IF gone THEN {"", "10"} ELSE {},
     files |-> files]

\* detectCudaSupport is called on a win, a linux or a mac machine; the mac
\* machine holds files under the linux names
CudaInit ==
    /\ QuietCall
    /\ detOut = <<>>
    /\ \E gone \in BOOLEAN :
          \/ \E a \in FilePicks("win", "cudart"), b \in FilePicks("win", "cublas"),
                c \in FilePicks("win", "cublasLt"), d \in DriverPicks("win") :
                detIn = CudaMachine("win", gone,
                                    [cudart |-> a, cublas |-> b, cublasLt |-> c, driver |-> d])
          \/ \E z \in LibcudaPicks, a \in FilePicks("linux", "cudart"),
                b \in FilePicks("linux", "cublas"), c \in FilePicks("linux", "cublasLt"),
                d \in DriverPicks("linux") :
                detIn = CudaMachine("linux", gone,
                                    [cuda |-> z, cudart |-> a, cublas |-> b, cublasLt |-> c,
                                     driver |-> d])
          \/ \E a \in FilePicks("linux", "cudart"), b \in FilePicks("linux", "cublas"),
                c \in FilePicks("linux", "cublasLt"), d \in DriverPicks("linux") :
                detIn = CudaMachine("mac", gone,
                                    [cudart |-> a, cublas |-> b, cublasLt |-> c, driver |-> d])

DetectCudaSupport ==
    /\ detOut = <<>>
    /\ detOut' = <<detectCudaSupport(detIn)>>
    /\ UNCHANGED <<pc, reqParams, otherVars, binaryVars, chatVars, detIn, supVars, toParent,
                   workerVars, fakeEmitted, envVars>>

CudaNext == DetectCudaSupport

\* detectCudaSupport on any machine
CudaSpec == CudaInit /\ [][CudaNext]_vars

\* ---- detector: detectAvailableComputeLayers ------------------------------
\* the loader library is looked for in fixed directories only
detectVulkanSupport(m) ==
    LET names == AcceptedNames(m.platform, "vulkan")
    IN  asyncSome([i \in DOMAIN names |-> hasFileInPath(m, names[i], {"fixed"})])

detectMetalSupport(m) == m.platform = "mac"

\* the device ids accepted on win
targetDeviceIds ==
    {"7D55", "64A0", "7D45", "7D40", "7D67", "7D51", "7D41", "56A0",
     "56A1", "56A2", "56A5", "56A6", "E20B", "E20C", "E212", "E211"}

\* a display device the enumeration command lists: its name and its device id
Devices ==
    {[name |-> "Intel Arc A770", id |-> "56A0"],
     [name |-> "Intel Arc Pro A60", id |-> "56B3"],
     [name |-> "Intel Corporation Device 56a0", id |-> "56A0"],
     [name |-> "NVIDIA RTX 3060", id |-> "2504"]}

\* name.toLowerCase().includes("arc")
includesArc(name) == name \in {"Intel Arc A770", "Intel Arc Pro A60"}

\* the filter a line of the enumeration passes: the device id is in the
\* list on win, the name contains "arc" on linux and mac
keepsDevice(platform, d) ==
    IF platform = "win" THEN d.id \in targetDeviceIds ELSE includesArc(d.name)

\* the outcome of a probe step: it threw, or it returned value
ProbeThrew == [threw |-> TRUE, value |-> <<>>]
ProbeGave(value) == [threw |-> FALSE, value |-> value]

\* mutant: the enumeration is not inside a try
getArcGpuDeviceNamesUnguarded(m) ==
    IF m.exec.threw THEN ProbeThrew
    ELSE ProbeGave(SelectSeq(m.exec.devices, LAMBDA d : keepsDevice(m.platform, d)))

\* getArcGpuDeviceNames: execAsync throwing ends in the catch, then return []
getArcGpuDeviceNames(m) ==
    IF m.exec.threw THEN ProbeGave(<<>>)
    ELSE ProbeGave(SelectSeq(m.exec.devices, LAMBDA d : keepsDevice(m.platform, d)))

detectSyclSupport(m) ==
    LET gpuDeviceNames == getArcGpuDeviceNames(m)
    IN  IF gpuDeviceNames.threw THEN ProbeThrew
        ELSE ProbeGave(Len(gpuDeviceNames.value) > 0)

\* Promise.all of the four probes: rejected when one of them rejects
detectAvailableComputeLayers(m) ==
    LET sycl == detectSyclSupport(m)
    IN  IF sycl.threw THEN [rejected |-> TRUE]
        ELSE [rejected |-> FALSE, cuda |-> detectCudaSupport(m),
              vulkan |-> detectVulkanSupport(m), metal |-> detectMetalSupport(m),
              sycl |-> sycl.value]

\* where the CUDA libraries of a machine are: nowhere, or all classes in one place
LibraryPlaces == {"none", "fixed", "install"}
LibrariesAt(platform, place) ==
    LET at(class) == IF place = "none" \/ class \notin RuntimeClasses(platform) THEN {}
                     ELSE {<<AcceptedNames(platform, class)[1], place>>}
    IN  [c \in {"cuda", "cudart", "cublas", "cublasLt"} |-> at(c)]

\* what the enumeration command may give
ExecResults ==
    {[threw |-> TRUE, devices |-> <<>>]}
    \cup {[threw |-> FALSE, devices |-> ds] : ds \in {<<>>} \cup {<<d>> : d \in Devices}}

\* the machines detectAvailableComputeLayers may run on
DetectInit ==
    /\ QuietCall
    /\ detOut = <<>>
    /\ \E p \in {"win", "linux", "mac"}, place \in LibraryPlaces, gone \in BOOLEAN,
          scan \in {"ok", "throws"}, exec \in ExecResults, vulkan \in BOOLEAN,
          hasDriver \in BOOLEAN :
          detIn = [CudaMachine(p, gone,
                               [c \in {"cuda", "cudart", "cublas", "cublasLt", "driver", "vulkan"} |->
                                   IF c = "driver"
                                   THEN (IF hasDriver
                                         THEN {<<AcceptedNames(p, "driver")[1], "fixed">>}
                                         ELSE {})
                                   ELSE IF c = "vulkan"
                                   THEN (IF vulkan THEN {<<AcceptedNames(p, "vulkan")[1], "fixed">>}
                                         ELSE {})
                                   ELSE LibrariesAt(p, place)[c]])
                   EXCEPT !.scan = scan] @@ [exec |-> exec]

DetectAvailableComputeLayers ==
    /\ detOut = <<>>
    /\ detOut' = <<detectAvailableComputeLayers(detIn)>>
    /\ UNCHANGED <<pc, reqParams, otherVars, binaryVars, chatVars, detIn, supVars, toParent,
                   workerVars, fakeEmitted, envVars>>

DetectNext == DetectAvailableComputeLayers

\* detectAvailableComputeLayers on any machine
DetectSpec == DetectInit /\ [][DetectNext]_vars

\* ---- chat command: the streamed output of one iteration -------------------
\* the characters of the response chunks: a white space and two others
Chars == {" ", "a", "b"}
isWhitespace(c) == c = " "
\* a response chunk: a string of at most MaxChunkLen characters
ResponseChunks == UNION {[1..n -> Chars] : n \in 0..MaxChunkLen}
\* segmentType of a chunk: "none" (null / undefined) for the response itself
SegmentTypes == {"none", "thought"}

RECURSIVE trimStart(_)
\* String.prototype.trimStart
trimStart(text) ==
    IF text # <<>> /\ isWhitespace(Head(text)) THEN trimStart(Tail(text)) ELSE text

RECURSIVE trimEnd(_)
\* String.prototype.trimEnd
trimEnd(text) ==
    IF text # <<>> /\ isWhitespace(text[Len(text)])
    THEN trimEnd(SubSeq(text, 1, Len(text) - 1))
    ELSE text

\* text.slice(start)
slice(text, start) == SubSeq(text, start + 1, Len(text))

\* the header written when the segment changes (lines 1198-1219); chunks of a
\* segment have type "segment"
segmentHeader(c, segmentType) ==
    [newline |-> c.hadTrimmedWhitespaceTextInThisIterationAndSegment,
     closes |-> IF segmentType = "none" THEN "segment"
                ELSE IF c.currentSegmentType = "none" THEN "response" ELSE "segment",
     label |-> IF segmentType = "none" THEN "response" ELSE segmentType]

\* mutant: the withheld white space is forgotten
onResponseChunkDropsLeftovers(c, chunk, segmentType) ==
    LET text == IF ~c.hadTrimmedWhitespaceTextInThisIterationAndSegment
                THEN trimStart(chunk) ELSE chunk
        textWithTrimmedEnd == trimEnd(text)
    IN  [c EXCEPT !.hadTrimmedWhitespaceTextInThisIterationAndSegment = @ \/ Len(text) > 0,
                  !.nextPrintLeftovers = slice(text, Len(textWithTrimmedEnd)),
                  !.written = @ \o textWithTrimmedEnd,
                  !.received = @ \o chunk,
                  !.chunks = @ + 1]

\* onResponseChunk (lines 1197-1241); written and received restart with the
\* segment: the text written after its header, the chunks received for it
onResponseChunk(c, chunk, segmentType) ==
    LET s == IF segmentType # c.currentSegmentType
             THEN [c EXCEPT !.headers = Append(@, segmentHeader(c, segmentType)),
                            !.hadTrimmedWhitespaceTextInThisIterationAndSegment = FALSE,
                            !.currentSegmentType = segmentType,
                            !.written = <<>>, !.received = <<>>]
             ELSE c
        joined == s.nextPrintLeftovers \o chunk
        trimsStart == c.trimWhitespace /\ ~s.hadTrimmedWhitespaceTextInThisIterationAndSegment
        text == IF trimsStart THEN trimStart(joined) ELSE joined
        textWithTrimmedEnd == IF c.trimWhitespace THEN trimEnd(text) ELSE text
    IN  [s EXCEPT !.hadTrimmedWhitespaceTextInThisIterationAndSegment =
                      @ \/ (trimsStart /\ Len(text) > 0),
                  !.nextPrintLeftovers =
                      IF Len(textWithTrimmedEnd) < Len(text)
                      THEN slice(text, Len(textWithTrimmedEnd)) ELSE <<>>,
                  !.written = @ \o textWithTrimmedEnd,
                  !.received = @ \o chunk,
                  !.chunks = @ + 1]

chatFrame ==
    UNCHANGED <<pc, reqParams, otherVars, binaryVars, detVars, supVars, toParent,
                workerVars, fakeEmitted, envVars>>

\* RunChat: an iteration of the prompt loop starts (lines 848, 1140-1142, 1169)
StartIteration ==
    /\ chat.phase = "idle"
    /\ \E noTrimWhitespace \in BOOLEAN :
          chat' = [NoChat EXCEPT !.phase = "generating",
                                 !.trimWhitespace = ~noTrimWhitespace]
    /\ chatFrame

\* session.prompt calls onResponseChunk with the next chunk
OnResponseChunk ==
    /\ chat.phase = "generating" /\ chat.chunks < MaxStreamed
    /\ \E chunk \in ResponseChunks, segmentType \in SegmentTypes :
          chat' = onResponseChunk(chat, chunk, segmentType)
    /\ chatFrame

ChatInit ==
    /\ QuietCall
    /\ detIn = NoMachine /\ detOut = <<>>

ChatNext == StartIteration \/ OnResponseChunk

\* the chat command's output while a response streams in
ChatSpec == ChatInit /\ [][ChatNext]_vars

\* the worker has sent Loaded
WorkerSentLoaded == \E i \in DOMAIN wlog : wlog[i].step = "send:loaded"

\* the child writes a chunk to stdout or stderr (console.log / console.error
\* of the worker block, output of the native code); with stdio "ignore"
\* (line 135) it goes nowhere; a chunk is tagged by when it was written
ChildWrites ==
    /\ workerKind = "real" /\ forkType = "node" /\ proc = "running"
    /\ written < MaxChunks
    /\ written' = written + 1
    /\ outPipe' = IF pipeOutputOnNode
                  THEN Append(outPipe, IF WorkerSentLoaded THEN "post" ELSE "pre")
                  ELSE outPipe
    /\ UNCHANGED <<pc, reqVars, testPassed, forkSucceeded, testFinished, timeoutHandle,
                   subProcessSet, pipeSet, exitHook, exited, exitCode, killed,
                   timerPromise, mainPromise, outcome, trace, hostAlive, injected,
                   roleVars, guardVars, proc, procCode, exitEvent, toChild, toParent,
                   workerVars, fakeEmitted>>

\* subProcess.stdout / stderr emit 'data': the listeners of lines 179-182 are
\* on until cleanupNodeFork takes them off together with the exit hook
DataEvent ==
    /\ hostAlive /\ pc = "raced" /\ outPipe # <<>>
    /\ outPipe' = Tail(outPipe)
    /\ Apply(IF pipeOutputOnNode /\ exitHook THEN onStdout(S, Head(outPipe)) ELSE S)
    /\ UNCHANGED <<pc, reqVars, toParent, workerVars, fakeEmitted, hostAlive, injected,
                   roleVars, guardVars, written>>

PipeNext == Next \/ ChildWrites \/ DataEvent

\* the request with the child's output
PipeSpec == Init /\ [][PipeNext]_vars

\* the request in a host that may shut down at any point
HostSpec == Init /\ [][HostNext]_vars

\* setTimeout: an armed timer that is not cleared fires
FairSpec == Spec /\ WF_vars(TimerFires)

TypeOK ==
    /\ pc \in {"call", "raced", "skipped", "foreign"}
    /\ childEnvFlag \in EnvFlags /\ childChannel \in BOOLEAN
    /\ guardIn \in {<<>>} \cup {<<in>> : in \in GuardInputs}
    /\ warned \in BOOLEAN
    /\ otherMsgs \in 0..MaxOtherMsgs
    /\ missing \subseteq CapabilityFunctions
    /\ directOut \in {<<>>, <<TRUE>>, <<FALSE>>}
    /\ detIn.platform \in {"win", "linux", "mac"}
    /\ Len(detOut) <= 1
    /\ chat.phase \in {"idle", "generating"} /\ chat.chunks \in 0..MaxStreamed
    /\ written \in 0..MaxChunks
    /\ outPipe \in Seq({"pre", "post"}) /\ Len(outPipe) <= written
    /\ timeoutHandle \in {"unset", "armed", "fired", "cleared"}
    /\ timerPromise \in {"pending", "timeout"}
    /\ mainPromise \in {"pending", "true", "false", "norun"}
    /\ outcome \in {<<>>} \cup {<<v>> : v \in {"true", "false", "norun", "timeout"}}
    /\ proc \in {"none", "running", "dead"}
    /\ procCode \in ExitResults
    /\ exitCode \in ExitResults
    /\ exitEvent \in {"none", "pending", "delivered"}
    /\ workerPc \in {"boot", "listening", "init"}
    /\ workerExit \in {"none", "load", "test", "exit"}
    /\ fakeEmitted \in 0..MaxFakeMsgs
    /\ handled \in Nat /\ awaiting \subseteq 1..handled
    /\ \A i \in DOMAIN wlog : wlog[i].h \in 0..handled /\ wlog[i].ok \in BOOLEAN
    /\ hostAlive \in BOOLEAN
    /\ injected \in 0..MaxInjected


\* ---- reading the supervisor's event trace ---------------------------------
IsRecv(e) == e.k = "recv"
IsExit(e) == e.k = "exit"
IsTimeout(e) == e.k = "timeout"
IsSend(e) == e.k = "send"

\* the messages the supervisor received so far, in order
ReceivedEvents == SelectSeq(trace, IsRecv)
Received == [i \in 1..Len(ReceivedEvents) |-> ReceivedEvents[i].m]

RecvAt(i, m) == trace[i].k = "recv" /\ trace[i].m = m
SendAt(i, m) == trace[i].k = "send" /\ trace[i].m = m
ExitAt(i) == trace[i].k = "exit"
TimeoutAt(i) == trace[i].k = "timeout"

ExitObserved == \E i \in DOMAIN trace : ExitAt(i)
\* position of the first exit the supervisor observed
FirstExit == CHOOSE i \in DOMAIN trace : ExitAt(i) /\ \A j \in 1..(i - 1) : ~ExitAt(j)
\* the deadline fired before position i of the trace
TimeoutBefore(i) == \E j \in 1..(i - 1) : TimeoutAt(j)
RecvBefore(i, m) == \E j \in 1..(i - 1) : RecvAt(j, m)

Handshake == <<"ready", "loaded", "done">>
IsPrefix(a, b) == Len(a) <= Len(b) /\ \A i \in 1..Len(a) : a[i] = b[i]

Passed == outcome = <<"true">>
TimedOut == outcome = <<"timeout">>
\* the two results of a child that ended: the boolean false, and the
\* "failed to run a test process" error of a child that never said ready
Crashed == outcome \in {<<"false">>, <<"norun">>}


\* ==== claims ==============================================================

\* C1: a request that spawned a worker settles eventually (the armed deadline
\* timer fires unless cleared) and the returned promise takes exactly one
\* outcome: once settled, its outcome never changes and no second one is added.
C1_SettlesExactlyOnce ==
    /\ [][outcome # <<>> => outcome' = outcome]_vars
    /\ [](Len(outcome) <= 1)
    /\ (pc = "raced" ~> Len(outcome) = 1)

\* C1 witness: the deadline won and the exit path tried to settle afterwards
C1_Witness ==
    pc = "raced" /\ outcome = <<"timeout">> /\ mainPromise # "pending"

C3_SilentWorkerTimesOut ==
    \A i \in DOMAIN trace :
        (TimeoutAt(i) /\ \A j \in 1..(i - 1) : ~IsRecv(trace[j]))
            => (TimedOut /\ proc # "running")

\* C3 witness: the deadline was the first event and it killed a live child
C3_Witness ==
    /\ trace # <<>> /\ TimeoutAt(1)
    /\ killed /\ proc = "dead" /\ TimedOut

\* an exit with code 0 was observed before any done was received
ExitZeroBeforeDone ==
    \E i \in DOMAIN trace :
        ExitAt(i) /\ trace[i].c = 0 /\ ~RecvBefore(i, "done")

\* C4: if the supervisor observes the child's exit with code 0 before it has
\* received done, the outcome is never Passed.
C4_EarlyCleanExitNeverPasses ==
    ExitZeroBeforeDone => ~Passed

\* C4 witness: ready and loaded were received, then the child left with code 0
C4_Witness ==
    /\ ExitZeroBeforeDone
    /\ Received = <<"ready", "loaded">>
    /\ outcome = <<"false">>

\* an exit with a nonzero code was observed; own: the child was never signalled
NonzeroExitObserved == \E i \in DOMAIN trace : ExitAt(i) /\ trace[i].c # 0

\* C5 (as claimed): a child that ends by itself with a nonzero code, at any
\* point, makes the outcome Crashed.
C5_NonzeroExitIsCrashed ==
    (NonzeroExitObserved /\ ~killed) => Crashed

\* C5 (amended): a nonzero exit observed before the deadline fired makes the
\* outcome Crashed; if the deadline fired first the outcome is TimedOut.
C5_NonzeroExitCrashedUnlessTimedOut ==
    NonzeroExitObserved =>
        IF timeoutHandle = "fired" THEN TimedOut ELSE Crashed

\* C5 witness: ready, loaded, then exit code 137
C5_Witness ==
    /\ Received = <<"ready", "loaded">>
    /\ ExitObserved /\ trace[FirstExit].c = 137
    /\ outcome = <<"false">>


\* the message whose reception allows sending m
Precondition(m) ==
    CASE m = "start" -> "ready"
      [] m = "test" -> "loaded"
      [] m = "exit" -> "done"

\* C6: the supervisor sends start only on receiving ready, test (RunTest) only
\* on receiving loaded, exit only on receiving done: every message it sends
\* directly follows the reception of its precondition message.
C6_SendOnlyAfterPrecondition ==
    \A i \in DOMAIN trace :
        IsSend(trace[i]) => (i > 1 /\ RecvAt(i - 1, Precondition(trace[i].m)))

\* C6 witness: all three messages were sent
C6_Witness ==
    /\ \E i \in DOMAIN trace : SendAt(i, "start")
    /\ \E i \in DOMAIN trace : SendAt(i, "test")
    /\ \E i \in DOMAIN trace : SendAt(i, "exit")

\* the messages received up to position i of the trace
ReceivedUpTo(i) ==
    LET r == SelectSeq(SubSeq(trace, 1, i), IsRecv)
    IN  [j \in 1..Len(r) |-> r[j].m]

C8_HandshakeAndCleanExitPasses ==
    (/\ ExitObserved
     /\ trace[FirstExit].c = 0
     /\ ReceivedUpTo(FirstExit) = Handshake
     /\ ~TimeoutBefore(FirstExit)) => Passed

\* C8 witness: the worker answered start and test and left on exit with code 0
C8_Witness ==
    /\ workerKind = "real" /\ workerExit = "exit"
    /\ ExitObserved /\ trace[FirstExit].c = 0
    /\ ReceivedUpTo(FirstExit) = Handshake
    /\ Len(trace) = 7

\* C9 (as claimed): done received after ready and loaded makes the request
\* terminal, so a deadline that expires later cannot make the outcome TimedOut
\* (stated for the worker of this file).
C9_DoneIsTerminal ==
    workerKind = "real" =>
        \A i \in DOMAIN trace :
            (RecvAt(i, "done") /\ ReceivedUpTo(i) = Handshake /\ ~TimeoutBefore(i))
                => ~TimedOut

\* C9 (amended): receiving done marks the test as passed and sends exit, but
\* the request stays unsettled with the deadline armed until the child's exit
\* is observed (so an expiry in between gives TimedOut); a Passed outcome is
\* delivered only at the exit with code 0, with the timer cleared, so that no
\* later expiry can follow it.
C9_PassedOnlyAtExit ==
    /\ \A i \in DOMAIN trace :
           (/\ RecvAt(i, "done") /\ ReceivedUpTo(i) = Handshake
            /\ \A j \in DOMAIN trace : ~ExitAt(j) /\ ~TimeoutAt(j))
               => (outcome = <<>> /\ timeoutHandle = "armed" /\ testPassed)
    /\ (pc = "raced" /\ Passed) =>
           /\ timeoutHandle = "cleared"
           /\ ExitObserved /\ trace[FirstExit].c = 0

\* C9 witness: done was received in AwaitingDone and the request is still pending
C9_Witness ==
    /\ Received = Handshake
    /\ outcome = <<>> /\ timeoutHandle = "armed" /\ testPassed
    /\ proc = "running"

C11_NoOrphanedChild ==
    /\ proc = "running" => exitHook
    /\ ~hostAlive => proc # "running"

\* the host shut down in the middle of the protocol and its hook killed the child
C11_Witness ==
    /\ ~hostAlive /\ killed /\ proc = "dead"
    /\ timeoutHandle = "armed" /\ Received # <<>>

\* a completion of one of the two raced sources: the deadline or a child exit
IsCompletion(e) == IsTimeout(e) \/ IsExit(e)
CompletionObserved == \E i \in DOMAIN trace : IsCompletion(trace[i])
FirstCompletion ==
    CHOOSE i \in DOMAIN trace :
        IsCompletion(trace[i]) /\ \A j \in 1..(i - 1) : ~IsCompletion(trace[j])
\* what the completion at position i of the trace settles its promise with
SettlementAt(i) ==
    IF TimeoutAt(i) THEN "timeout"
    ELSE IF ~RecvBefore(i, "ready") THEN "norun"
    ELSE IF trace[i].c = 0 /\ RecvBefore(i, "done") THEN "true"
    ELSE "false"

\* C12: the deadline and the exit-driven completion are raced: the outcome is
\* the one of the completion that happened first, and no later completion
\* changes it
C12_FirstCompletionWins ==
    pc = "raced" =>
        IF CompletionObserved
        THEN outcome = <<SettlementAt(FirstCompletion)>>
        ELSE outcome = <<>>

\* the deadline won, and the exit-driven path later resolved with true
C12_Witness ==
    /\ TimedOut /\ mainPromise = "true"
    /\ \E i, j \in DOMAIN trace : i < j /\ TimeoutAt(i) /\ ExitAt(j)

\* C13: once the deadline has fired the supervisor sends no protocol message
\* to the worker, whatever worker message is delivered afterwards
C13_NoSendAfterDeadline ==
    \A i, j \in DOMAIN trace : (i < j /\ TimeoutAt(i)) => ~IsSend(trace[j])

\* fork() handed back a handle of a child that is not running
SpawnFailed == pc = "call" /\ pc' = "raced" /\ proc' = "dead"

PostLoadCalls ==
    {"loadBackends", "getGpuType", "loadBackends(dir)", "init:start", "init:end",
     "getGpuVramInfo", "getGpuDeviceInfo", "identity", "ensureGpuDeviceIsSupported"}
\* a call of the worker threw
FailedAt(name) == \E i \in DOMAIN wlog : wlog[i].step = name /\ ~wlog[i].ok
PostLoadFailure == workerKind = "real" /\ \E name \in PostLoadCalls : FailedAt(name)
\* the supervisor observed the child's exit before its deadline fired
ExitWonRace == ExitObserved /\ ~TimeoutBefore(FirstExit)

\* C15 as stated: a failure after the binary loaded (backend mismatch,
\* initialization or support assertion throwing) gives an outcome that is
\* not Crashed, and on a backend mismatch the worker exits cleanly
C15_PostLoadFailureIsFailedNotCrashed ==
    /\ (PostLoadFailure /\ ExitWonRace) => ~Crashed
    /\ (workerKind = "real" /\ FailedAt("identity")) => procCode = <<0>>

\* C15: after a failure of any call made once the binary loaded the worker
\* has exited with code 1, the request never passes, and when the supervisor
\* observes that exit before the deadline the outcome is false, the same as
\* for any other nonzero exit
C15_PostLoadFailureExitsOneAndIsFalse ==
    PostLoadFailure =>
        /\ proc = "dead" /\ procCode = <<1>> /\ workerExit = "test"
        /\ ~Passed
        /\ ExitWonRace => (outcome = <<"false">> /\ trace[FirstExit].c = 1)

\* the worker found another backend than the expected one and the supervisor
\* observed its exit
C15_Witness ==
    /\ workerKind = "real" /\ FailedAt("identity")
    /\ ExitWonRace /\ outcome = <<"false">>

\* loading the binary, or setting its log level, threw in the "start" branch
LoadFailure == workerKind = "real" /\ (FailedAt("require") \/ FailedAt("setLoggerLogLevel"))
\* invocation h completed the call name before position i of the log
DoneBefore(i, h, name) ==
    \E j \in 1..(i - 1) : wlog[j].h = h /\ wlog[j].step = name /\ wlog[j].ok
LoadedEmitted == "loaded" \in Range(toParent) \cup Range(Received)

\* C16: a failing load ends the worker with exit code 1 and without Loaded;
\* Loaded is sent only after the same invocation required the binary and then
\* set its log level; the supervisor never passes such a request and reports
\* the exit, when it observes it before the deadline, as Crashed
C16_LoadFailureExitsWithoutLoaded ==
    /\ LoadFailure =>
           /\ proc = "dead" /\ procCode = <<1>> /\ workerExit = "load"
           /\ ~LoadedEmitted
           /\ ~Passed
           /\ ExitWonRace => (Crashed /\ trace[FirstExit].c = 1)
    /\ \A i \in DOMAIN wlog :
           wlog[i].step = "send:loaded" =>
               \E k \in 1..(i - 1) :
                   /\ wlog[k].h = wlog[i].h /\ wlog[k].step = "setLoggerLogLevel" /\ wlog[k].ok
                   /\ DoneBefore(k, wlog[i].h, "require")

\* requiring the binary threw and the supervisor observed the exit
C16_Witness ==
    /\ workerKind = "real" /\ FailedAt("require")
    /\ ExitWonRace /\ outcome = <<"false">> /\ Received = <<"ready">>

\* what invocation h of the worker's onMessage did, in order
HandlerLog(h) == SelectSeq(wlog, LAMBDA e : e.h = h)
StepsOf(log) == [i \in 1..Len(log) |-> log[i].step]
Front(log) == SubSeq(log, 1, Len(log) - 1)
AllOk(log) == \A i \in DOMAIN log : log[i].ok
IsTestHandler(h) == HandlerLog(h) # <<>> /\ HandlerLog(h)[1].step = "bindingLoaded"
TestHandlers == {h \in 1..handled : IsTestHandler(h)}

\* the order of the claim: discovery, optional re-probe, awaited
\* initialization, the two queries, identity check, support assertion, Done
ExpectedOrder(withReprobe) ==
    <<"bindingLoaded", "loadBackends", "getGpuType">>
    \o (IF withReprobe THEN <<"loadBackends(dir)">> ELSE <<>>)
    \o <<"init:start", "init:end", "getGpuVramInfo", "getGpuDeviceInfo", "getGpuType",
         "identity", "ensureGpuDeviceIsSupported", "send:done">>

\* log is a run of order: its calls in that order, each completed before the
\* next one starts, ended at most by one throwing call followed by the exit
FollowsOrder(log, order) ==
    \/ IsPrefix(StepsOf(log), order) /\ AllOk(log)
    \/ /\ Len(log) >= 2
       /\ log[Len(log)].step = "exit:1"
       /\ IsPrefix(StepsOf(Front(log)), order)
       /\ AllOk(Front(Front(log)))
       /\ ~log[Len(log) - 1].ok

\* C17: every handling of RunTest performs discovery, the conditional
\* re-probe, the awaited initialization, the two capability queries, the
\* identity check and the support assertion in this order, one call after
\* the other, and sends Done last, after all of them completed
C17_TestStepsInOrder ==
    \A h \in TestHandlers :
        \E withReprobe \in BOOLEAN : FollowsOrder(HandlerLog(h), ExpectedOrder(withReprobe))

\* a handling of RunTest ran to its end, re-probe included, and the
\* supervisor received its Done
C17_Witness ==
    /\ \E h \in TestHandlers : StepsOf(HandlerLog(h)) = ExpectedOrder(TRUE)
    /\ Received = Handshake

\* C18: when a call of a RunTest handling throws, the failed binding check
\* of a RunTest without loaded binary included, the worker exits with code 1
\* right away: that handling sends no Done and nothing runs after the exit
C18_TestThrowExitsWithoutDone ==
    \A i \in DOMAIN wlog :
        (~wlog[i].ok /\ wlog[i].h \in TestHandlers) =>
            /\ proc = "dead" /\ procCode = <<1>> /\ workerExit = "test"
            /\ Len(wlog) = i + 1
            /\ wlog[i + 1] = Step(wlog[i].h, "exit:1", TRUE)
            /\ \A j \in DOMAIN wlog : wlog[j].h = wlog[i].h => wlog[j].step # "send:done"

\* RunTest reached a worker that had loaded no binary
C18_Witness ==
    /\ workerKind = "real" /\ FailedAt("bindingLoaded") /\ ~binding
    /\ proc = "dead" /\ procCode = <<1>>

\* the worker ended itself: the last entry of its log is a process.exit
SelfExit(code) == wlog # <<>> /\ wlog[Len(wlog)].step = code
\* the worker block ran in the child (it announced itself)
WorkerRan == workerKind = "real" /\ workerPc # "boot"

\* C19: the worker exits with code 0 only when handling Exit and with a
\* nonzero code after every failure; so the supervisor observes exit code 0
\* of a worker only after it received Done and sent Exit
C19_CleanExitOnlyAfterExit ==
    WorkerRan =>
        /\ (proc = "dead" /\ procCode = <<0>>) <=> SelfExit("exit:0")
        /\ SelfExit("exit:0") <=> workerExit = "exit"
        /\ SelfExit("exit:1") <=> (workerExit \in {"load", "test"} /\ procCode = <<1>>)
        /\ \A i \in DOMAIN trace :
               (ExitAt(i) /\ trace[i].c = 0) =>
                   \E j, k \in 1..(i - 1) : j < k /\ RecvAt(j, "done") /\ SendAt(k, "exit")

\* the supervisor observed the worker's exit code 0
C19_Witness ==
    /\ WorkerRan /\ SelfExit("exit:0")
    /\ \E i \in DOMAIN trace : ExitAt(i) /\ trace[i].c = 0

\* position i of the log holds the first getGpuType() of a RunTest handling
FirstGpuTypeAt(i) ==
    /\ wlog[i].step = "getGpuType" /\ wlog[i].ok
    /\ wlog[i].h \in TestHandlers
    /\ ~DoneBefore(i, wlog[i].h, "init:start")
\* the call that follows it is the discovery with the directory hint
ReprobeAfter(i) == i < Len(wlog) /\ wlog[i + 1].step = "loadBackends(dir)"
AbsentOrFalsy(v) == v \in {"null", "none"}

\* C20 as stated: the re-probe happens exactly when the first identifier is
\* absent or falsy and the expected kind is not the "no backend" sentinel
C20_ReprobeOnlyWhenBackendExpected ==
    workerKind = "real" =>
        \A i \in DOMAIN wlog :
            FirstGpuTypeAt(i) => (ReprobeAfter(i) <=> (AbsentOrFalsy(wlog[i].v) /\ gpu # "none"))

\* C20: the re-probe happens exactly when the first identifier is absent
\* (null or undefined), whatever kind is expected, or is false while the
\* expected kind is not false
C20_ReprobeWhenAbsentOrUnexpectedlyFalse ==
    workerKind = "real" =>
        \A i \in DOMAIN wlog :
            FirstGpuTypeAt(i) =>
                (ReprobeAfter(i) <=>
                    (wlog[i].v = "null" \/ (wlog[i].v = "none" /\ gpu # "none")))

\* no backend was expected, the first identifier was absent, and the worker
\* re-ran the discovery with the directory hint
C20_Witness ==
    /\ workerKind = "real" /\ gpu = "none" /\ reprobed
    /\ \E i \in DOMAIN wlog : FirstGpuTypeAt(i) /\ wlog[i].v = "null" /\ ReprobeAfter(i)

\* the process that runs the worker file is in the worker role
InWorkerRole == childEnvFlag = "true" /\ childChannel
\* a step in which a candidate binary gets loaded
LoadsBinary == ~binding /\ binding'

\* C21: the binary is loaded only by a Start handling of a running process
\* in the worker role, in a step that leaves the supervisor's process
\* untouched; a process without the flag (or without parent channel) never
\* sends Ready and handles no message
C21_LoadedOnlyInWorkerRole ==
    /\ [][LoadsBinary =>
             /\ InWorkerRole /\ proc = "running" /\ handled' = handled + 1
             /\ UNCHANGED <<pc, testPassed, forkSucceeded, testFinished, timeoutHandle,
                            timerPromise, mainPromise, outcome, trace>>]_vars
    /\ [](binding => InWorkerRole)
    /\ [](~InWorkerRole => (wlog = <<>> /\ toParent = <<>> /\ handled = 0
                            /\ workerPc = "boot"))

\* a process with a parent channel but without the flag was sent Start and
\* RunTest and handled neither
C21_Witness ==
    /\ childEnvFlag # "true" /\ childChannel /\ proc = "running"
    /\ toChild = <<"start", "test">> /\ wlog = <<>> /\ ~binding

\* the running file's name does not start with "testBindingBinary"
FileNameLost(in) == ~in.fileNameOk
\* a Node SEA is detected inside a Linux snap
SeaInSnap(in) == in.snapOnLinux /\ in.sea = "yes"
RoleUndetermined == guardIn # <<>> /\ (FileNameLost(guardIn[1]) \/ SeaInSnap(guardIn[1]))

\* C22: when the file name is lost or a Node SEA is detected inside a Linux
\* snap, testBindingBinary spawns no child and arms no timer, and what it
\* returns is Passed, after the warning was logged
C22_UndeterminedRoleAssumesPassed ==
    RoleUndetermined =>
        /\ ~roleKnown
        /\ proc = "none" /\ timeoutHandle = "unset" /\ ~subProcessSet /\ ~exitHook
        /\ pc \in {"call", "skipped"}
        /\ pc = "skipped" => (Passed /\ warned)
        /\ pc = "call" => (outcome = <<>> /\ ~warned)

\* a Node SEA inside a snap, file name intact: Passed was returned
C22_Witness ==
    /\ guardIn # <<>> /\ guardIn[1].fileNameOk /\ SeaInSnap(guardIn[1])
    /\ pc = "skipped" /\ Passed /\ warned /\ proc = "none"

\* position i of the trace is a chunk of child output reaching the host
DataAt(i) == trace[i].k = "data"
ForwardedAt(i) == DataAt(i) /\ trace[i].c = 1

\* C23 as stated: output the child wrote before it sent Loaded is never
\* forwarded
C23_PreLoadedOutputNeverForwarded ==
    \A i \in DOMAIN trace : ForwardedAt(i) => trace[i].m = "post"

\* C23: a chunk of child output is forwarded only when piping was requested
\* and Loaded was received before the chunk arrived; a chunk arriving
\* earlier is dropped at arrival and not kept for later
C23_ForwardedOnlyAfterLoadedReceived ==
    \A i \in DOMAIN trace :
        DataAt(i) =>
            (ForwardedAt(i) <=> (pipeOutputOnNode /\ forkType = "node" /\ RecvBefore(i, "loaded")))

\* one chunk arrived before Loaded and was dropped, one after and was forwarded
C23_Witness ==
    \E i, j \in DOMAIN trace :
        /\ i < j /\ DataAt(i) /\ ~ForwardedAt(i) /\ ForwardedAt(j)
        /\ \E k \in (i + 1)..(j - 1) : RecvAt(k, "loaded")

\* this call's own state: its locals, promises, child, channel and timer
OwnState == <<pc, supVars, toParent, workerVars>>

C25_LackingBinaryNeverPasses ==
    missing # {} => (~Passed /\ directOut # <<TRUE>>)

\* in the harness a lacking binary never passes, its worker never sends Done
\* and the call that reaches the missing function exits the worker with 1
C25_LackingBinaryFailsInHarness ==
    missing # {} =>
        /\ ~Passed
        /\ \A i \in DOMAIN wlog : wlog[i].step # "send:done"
        /\ \A i \in DOMAIN wlog :
              (CalledFunction(wlog[i].step) \in missing) =>
                  (~wlog[i].ok /\ proc = "dead" /\ procCode = <<1>>)

\* the direct script fails on a binary lacking one of its six required functions
C25_LackingRequiredFailsDirect ==
    (requiredFunctions \cap missing # {}) => directOut # <<TRUE>>

\* C26 (as stated): the ranking lists the parsed names by version
\* descending and every unparsable name after all parsed ones
C26_ParsedDescendingUnparsableLast ==
    detOut # <<>> =>
        \A i, j \in DOMAIN Ranked :
            i < j =>
                /\ Parsed(Ranked[j]) => Parsed(Ranked[i])
                /\ (Parsed(Ranked[i]) /\ Parsed(Ranked[j])) =>
                       semverCompare(coerce(Ranked[i][2]), coerce(Ranked[j][2])) >= 0

\* what the code ranks: the unparsable names first, then the parsed ones by
\* version descending
C26_UnparsableFirstParsedDescending ==
    detOut # <<>> =>
        \A i, j \in DOMAIN Ranked :
            i < j =>
                /\ Parsed(Ranked[i]) => Parsed(Ranked[j])
                /\ (Parsed(Ranked[i]) /\ Parsed(Ranked[j])) =>
                       semverCompare(coerce(Ranked[i][2]), coerce(Ranked[j][2])) >= 0

\* C27 (as stated): the unparsable names keep their relative input order
C27_UnparsableKeepInputOrder ==
    detOut # <<>> =>
        \A i, j \in DOMAIN Ranked :
            (i < j /\ ~Parsed(Ranked[i]) /\ ~Parsed(Ranked[j])) =>
                PositionIn(detIn.listing, Ranked[i]) < PositionIn(detIn.listing, Ranked[j])

\* what the code ranks: the unparsable names in reversed input order
C27_UnparsableInReversedInputOrder ==
    detOut # <<>> =>
        \A i, j \in DOMAIN Ranked :
            (i < j /\ ~Parsed(Ranked[i]) /\ ~Parsed(Ranked[j])) =>
                PositionIn(detIn.listing, Ranked[i]) > PositionIn(detIn.listing, Ranked[j])

\* C28 (as stated): on win and linux, a CUDA_PATH that is set, not empty
\* and existing is the first returned path; when it is unset or empty only
\* discovered folders are returned
C28_OverrideFirstWhenItExists ==
    (detOut # <<>> /\ detIn.platform \in {"win", "linux"}) =>
        IF overrideGiven(detIn)
        THEN passesFilter(detIn, Override) =>
                (Installations # <<>> /\ Installations[1] = Override)
        ELSE \A i \in DOMAIN Installations :
                Installations[i].dir = cudaContainer(detIn.platform)

\* the same, for the runs whose folder scan did not throw; when it throws
\* nothing is returned, whatever CUDA_PATH is
C28_OverrideFirstUnlessScanThrows ==
    (detOut # <<>> /\ detIn.platform \in {"win", "linux"}) =>
        IF detIn.scan = "throws" THEN Installations = <<>>
        ELSE IF overrideGiven(detIn)
        THEN passesFilter(detIn, Override) =>
                (Installations # <<>> /\ Installations[1] = Override)
        ELSE \A i \in DOMAIN Installations :
                Installations[i].dir = cudaContainer(detIn.platform)

\* the override was returned ahead of two discovered folders
C28_Witness ==
    /\ detOut # <<>> /\ overrideGiven(detIn)
    /\ Len(Installations) >= 3 /\ Installations[1] = Override

\* the three library classes of the claim
RuntimeLibraries == {"cudart", "cublas", "cublasLt"}
\* one of the accepted names of the class exists in one of the search paths
FoundInSearchPaths(class) ==
    \E i \in DOMAIN AcceptedNames(detIn.platform, class), path \in librarySearchPaths(detIn) :
        <<AcceptedNames(detIn.platform, class)[i], path>> \in detIn.files[class]

\* C29: hasCudaRuntime is true only if each of the CUDA runtime, cuBLAS and
\* cuBLASLt classes has one of its accepted names in one of the search
\* paths; a class with no file anywhere makes it false
C29_RuntimeOnlyIfAllClassesFound ==
    detOut # <<>> =>
        /\ detOut[1].hasCudaRuntime => \A c \in RuntimeLibraries : FoundInSearchPaths(c)
        /\ (\E c \in RuntimeLibraries : detIn.files[c] = {}) => ~detOut[1].hasCudaRuntime

\* the runtime was found with the classes in different search paths and
\* under different version suffixes
C29_Witness ==
    /\ detOut # <<>> /\ detOut[1].hasCudaRuntime
    /\ \E c, d \in RuntimeLibraries :
          /\ \E f \in detIn.files[c] : f[2] = "fixed" /\ f[1] = AcceptedNames(detIn.platform, c)[1]
          /\ \E f \in detIn.files[d] : f[2] = "install" /\ f[1] # AcceptedNames(detIn.platform, d)[1]

\* on linux the three classes are not enough: libcuda is a fourth
C29_LinuxNeedsLibcuda ==
    (detOut # <<>> /\ detIn.platform = "linux" /\ detOut[1].hasCudaRuntime)
        => FoundInSearchPaths("cuda")

\* the capability map that was returned
Layers == detOut[1]
\* the enumeration command of the sycl probe threw
SyclProbeThrew == detIn.exec.threw
\* the folder scan of the cuda probe threw
CudaProbeThrew == detIn.platform \in {"win", "linux"} /\ detIn.scan = "throws"
\* the entries whose computation no throw can reach
UntouchedEntries ==
    /\ Layers.vulkan = detectVulkanSupport(detIn)
    /\ Layers.metal = detectMetalSupport(detIn)
    /\ ~SyclProbeThrew => Layers.sycl = (\E i \in DOMAIN detIn.exec.devices :
                                           keepsDevice(detIn.platform, detIn.exec.devices[i]))
    /\ ~CudaProbeThrew => Layers.cuda = detectCudaSupport([detIn EXCEPT !.scan = "ok"])
\* the unsupported value of the cuda entry
CudaUnsupported == [hasNvidiaDriver |-> FALSE, hasCudaRuntime |-> FALSE]

SearchedFor(class) == IF class = "vulkan" THEN {"fixed"} ELSE librarySearchPaths(detIn)
\* no library file of the machine lies in a path that is searched for it
NoFileInSearchPaths ==
    \A c \in DOMAIN detIn.files : \A f \in detIn.files[c] : f[2] \notin SearchedFor(c)
\* the enumeration command listed a device that passes the filter
ArcDeviceListed ==
    /\ ~detIn.exec.threw
    /\ \E i \in DOMAIN detIn.exec.devices : keepsDevice(detIn.platform, detIn.exec.devices[i])

\* C31 (as stated): without a matching library file in the search paths
\* the map is returned with every capability false, on every platform
C31_NoFilesEverythingFalse ==
    (detOut # <<>> /\ NoFileInSearchPaths) =>
        /\ ~Layers.rejected
        /\ Layers.cuda = CudaUnsupported
        /\ ~Layers.vulkan /\ ~Layers.metal /\ ~Layers.sycl

\* C31 (amended): without a matching library file in the search paths the
\* map is returned with the cuda entries and vulkan false; metal is true on
\* mac and sycl is true when an Arc device is enumerated, files or not
C31_NoFilesLibraryBackendsFalse ==
    (detOut # <<>> /\ NoFileInSearchPaths) =>
        /\ ~Layers.rejected
        /\ Layers.cuda = CudaUnsupported
        /\ ~Layers.vulkan
        /\ Layers.metal = (detIn.platform = "mac")
        /\ Layers.sycl = ArcDeviceListed

\* CUDA libraries lie in an installation that is not searched, and the map
\* reports nothing
C31_Witness ==
    /\ detOut # <<>> /\ NoFileInSearchPaths
    /\ detIn.files["cudart"] # {}
    /\ ~Layers.rejected /\ Layers.cuda = CudaUnsupported
    /\ ~Layers.vulkan /\ ~Layers.metal /\ ~Layers.sycl

\* the enumeration succeeded and listed a device whose id is in the list
ListedIdEnumerated ==
    /\ ~detIn.exec.threw
    /\ \E i \in DOMAIN detIn.exec.devices : detIn.exec.devices[i].id \in targetDeviceIds

\* C32 (as stated): on every platform sycl is true exactly when the
\* enumeration succeeds and lists a device whose id is in the allow-list,
\* and nothing is raised
C32_SyclExactlyWhenListedId ==
    detOut # <<>> => (~Layers.rejected /\ Layers.sycl = ListedIdEnumerated)

\* what the code reports: the id decides on win only, the name elsewhere; a
\* failing enumeration gives false without raising
C32_SyclByIdOnWinByNameElsewhere ==
    detOut # <<>> =>
        /\ ~Layers.rejected
        /\ detIn.exec.threw => ~Layers.sycl
        /\ detIn.platform = "win" => Layers.sycl = ListedIdEnumerated
        /\ (detIn.platform # "win" /\ ~detIn.exec.threw) =>
              Layers.sycl = \E i \in DOMAIN detIn.exec.devices :
                               includesArc(detIn.exec.devices[i].name)

\* the deadline timer is armed and the completion event, the exit with code
\* 0 of a child whose Done was received, is waiting to be delivered
TieEnabled ==
    /\ hostAlive /\ pc = "raced" /\ outcome = <<>>
    /\ timeoutHandle = "armed"
    /\ Received = Handshake /\ forkSucceeded /\ testPassed
    /\ exitEvent = "pending" /\ procCode = <<0>>

\* C33 (as stated): when the deadline and the completion event are both
\* enabled, the request never ends as timed out, whichever runs first
C33_CompletionWinsTie ==
    [][(TieEnabled /\ outcome' # <<>>) => outcome' = <<"true">>]_vars

\* what the code does: the callback that runs first decides the outcome
C33_FirstCallbackDecidesTie ==
    [][TieEnabled =>
          /\ timeoutHandle' = "fired" => (outcome' = <<"timeout">> /\ exitEvent' = "pending")
          /\ exitEvent' = "delivered" => (outcome' = <<"true">> /\ timeoutHandle' # "fired")]_vars

\* the timer fired in a tie and the request timed out after receiving Done
C33_TimerWonTie ==
    /\ outcome = <<"timeout">> /\ Received = Handshake /\ procCode = <<0>>
    /\ workerKind = "real" /\ exitEvent = "pending"

\* the six protocol messages in their order
Protocol == <<"ready", "start", "loaded", "test", "done", "exit">>
\* the messages the supervisor received and sent, in the order it did
Exchanged ==
    LET es == SelectSeq(trace, LAMBDA e : IsRecv(e) \/ IsSend(e))
    IN  [i \in 1..Len(es) |-> es[i].m]
\* the messages the worker posted, in the order it did
WorkerPosted ==
    LET es == SelectSeq(wlog, LAMBDA e : e.ok /\ e.step \in {"send:ready", "send:loaded", "send:done"})
    IN  [i \in 1..Len(es) |->
            CASE es[i].step = "send:ready" -> "ready"
              [] es[i].step = "send:loaded" -> "loaded"
              [] es[i].step = "send:done" -> "done"]

\* C34: with the worker of this file, the messages exchanged are always a
\* prefix of ready, start, loaded, test, done, exit and the messages the
\* worker posts a prefix of ready, loaded, done: each is sent at most once,
\* in this order
C34_ExchangeIsPrefixOfProtocol ==
    workerKind = "real" =>
        /\ IsPrefix(Exchanged, Protocol)
        /\ IsPrefix(WorkerPosted, Handshake)
        /\ \A i \in DOMAIN Received : Received[i] = WorkerPosted[i]

\* all six messages went over the channel, and the worker took the exit
C34_Witness ==
    workerKind = "real" /\ Exchanged = Protocol /\ WorkerPosted = Handshake /\ toChild = <<>>

\* what the first observed exit of the child must have made of the request
ExitDecides ==
    IF RecvBefore(FirstExit, "ready")
    THEN /\ outcome \in {<<"true">>, <<"false">>}
         /\ outcome = <<"true">> <=>
                (RecvBefore(FirstExit, "done") /\ trace[FirstExit].c = 0)
    ELSE outcome = <<"norun">>

\* C35 (as stated): a child exit observed before Ready was received ends
\* the request with "failed to run a test process"; observed after Ready it
\* resolves the request with a boolean, true only after Done and with code 0
C35_ExitDecidesByReady ==
    ExitObserved => ExitDecides

\* C35 (amended): the same for an exit observed before the deadline fired;
\* an exit observed after it leaves the request timed out
C35_ExitDecidesByReadyUnlessTimedOut ==
    ExitObserved =>
        IF TimeoutBefore(FirstExit) THEN outcome = <<"timeout">> ELSE ExitDecides

\* a child that exited with code 0 before Ready: the request failed to run
C35_Witness ==
    /\ ExitObserved /\ ~TimeoutBefore(FirstExit)
    /\ ~RecvBefore(FirstExit, "ready") /\ trace[FirstExit].c = 0
    /\ proc = "dead" /\ exitEvent = "delivered" /\ outcome = <<"norun">>

\* a request that has settled, by whatever path
Settled == outcome # <<>>

\* running the cleanup again changes nothing
CleanupIdempotent ==
    /\ cleanup(cleanup(S)) = cleanup(S)
    /\ killProcess(killProcess(S)) = killProcess(S)
    /\ Settled => cleanup(S) = S /\ killProcess(S) = S

\* no step signals the child: it is not marked killed, and its state and exit
\* result stay what they are
NoSignal == killed' = killed /\ proc' = proc /\ procCode' = procCode

\* the supervisor observed more than one exit notification for the child
ExitObservedTwice ==
    \E i, j \in DOMAIN trace : i < j /\ ExitAt(i) /\ ExitAt(j)

C36_DuplicatedExitHarmless ==
    ExitObservedTwice => (outcome = <<"norun">> /\ ~exitHook /\ proc = "dead")

\* the result of detectCudaSupport
Cuda == detOut[1]

\* C37: on win hasCudaRuntime is true exactly when cudart, cublas and
\* cublasLt are each found; on linux exactly when libcuda, libcudart,
\* libcublas and libcublasLt are each found; on any other platform both
\* flags are false. hasNvidiaDriver follows the driver library alone.
C37_RuntimeExactlyWhenEveryClassFound ==
    detOut # <<>> =>
        CASE detIn.platform = "win" ->
                /\ Cuda.hasCudaRuntime <=>
                       \A c \in {"cudart", "cublas", "cublasLt"} : FoundInSearchPaths(c)
                /\ Cuda.hasNvidiaDriver <=> FoundInSearchPaths("driver")
          [] detIn.platform = "linux" ->
                /\ Cuda.hasCudaRuntime <=>
                       \A c \in {"cuda", "cudart", "cublas", "cublasLt"} : FoundInSearchPaths(c)
                /\ Cuda.hasNvidiaDriver <=> FoundInSearchPaths("driver")
          [] OTHER -> ~Cuda.hasNvidiaDriver /\ ~Cuda.hasCudaRuntime

\* linux: the four classes are found and the driver library is not
C37_Witness ==
    /\ detOut # <<>> /\ detIn.platform = "linux"
    /\ Cuda.hasCudaRuntime /\ ~Cuda.hasNvidiaDriver
    /\ \A c \in {"cuda", "cudart", "cublas", "cublasLt"} : FoundInSearchPaths(c)

\* win: the driver is found and the runtime is not
C37_DriverWithoutRuntime ==
    /\ detOut # <<>> /\ detIn.platform = "win"
    /\ Cuda.hasNvidiaDriver /\ ~Cuda.hasCudaRuntime

\* mac: every library file is there and both flags are false
C37_OtherPlatformWithFiles ==
    /\ detOut # <<>> /\ detIn.platform = "mac"
    /\ \A c \in {"cudart", "cublas", "cublasLt", "driver"} : detIn.files[c] # {}
    /\ ~Cuda.hasNvidiaDriver /\ ~Cuda.hasCudaRuntime

\* String.prototype.trim
trim(text) == trimEnd(trimStart(text))

\* a response streams in with white space trimming switched on
TrimmingStream == chat.phase = "generating" /\ chat.trimWhitespace

\* C38: with white space trimming on, the text written for a segment is the
\* concatenation of the chunks received for it so far with leading and
\* trailing white space removed; the trailing white space is withheld, to be
\* written in front of the next chunk
C38_WrittenIsTrimmedConcatenation ==
    TrimmingStream =>
        /\ chat.written = trim(chat.received)
        /\ chat.hadTrimmedWhitespaceTextInThisIterationAndSegment =>
               chat.written \o chat.nextPrintLeftovers = trimStart(chat.received)

\* white space that was withheld was written once "b" followed, and the
\* white space after "b" is withheld in turn
C38_Witness ==
    /\ TrimmingStream /\ chat.chunks > 1
    /\ chat.written = <<"a", " ", "b">> /\ chat.nextPrintLeftovers = <<" ">>
    /\ Head(chat.received) = " "

\* with trimming switched off every chunk is written as it is
C38_UntrimmedIsConcatenation ==
    (chat.phase = "generating" /\ ~chat.trimWhitespace) =>
        chat.written = chat.received /\ chat.nextPrintLeftovers = <<>>

====
